-------------------------- MODULE SchemaPacksProofs --------------------------
(***************************************************************************)
(* For any packs, any number of workers and of boots: a pack appears whole  *)
(* in its version directory, and what a worker routes to it can always      *)
(* build a request for, whatever the other workers do to the folder. And    *)
(* for any of the forms those packs hold: which are served, what is filed   *)
(* of a submission, and what is kept of a desk's reply.                     *)
(***************************************************************************)
EXTENDS SchemaPacks, Forms, ListsProofs

\* Where a worker has a pack in hand.
Holding == {"staging", "clearing", "stale", "moving"}

\* What is in hand has all of its essential files: it was downloaded before it
\* was staged.
WholeInv ==
  \A w \in Workers :
    /\ at[w] \in Holding => staged[w].pack \in Packs /\ Essential \subseteq staged[w].files
    /\ staged[w].pack \notin Packs => staged[w].written = {}

PacksInv == PacksTypeOK /\ WholeInv /\ IndexesAgree

-----------------------------------------------------------------------------
\* Lemmas about what a step is made of.

\* A pack that is fetched or read next is one of the packs.
LEMMA NextIsAPack ==
  ASSUME NEW n \in Nat \ {0}, n <= Len(Order) PROVE Order[n] \in Packs
<1>1. Order \in Seq(Packs) BY PacksAssumption
<1>2. QED BY <1>1

\* A file that is written next is a file of a pack.
LEMMA NextIsAFile ==
  ASSUME NEW w \in Workers, NEW f \in NextFile(w) PROVE f \in Files
BY DEF NextFile, Files, ToSet

\* What a walk has read, the temporary folders included, is packs.
LEMMA WalkedType ==
  ASSUME PacksTypeOK, WholeInv, NEW w \in Workers PROVE Walked(w) \subseteq ReadPack
<1>1. boot[w].read \subseteq ReadPack BY DEF PacksTypeOK, BootType
<1>2. SUFFICES ASSUME NEW t \in Temporary, Essential \subseteq t.files
               PROVE  Pack(t.pack, t.files, FALSE) \in ReadPack
  BY <1>1 DEF Walked
<1>3. t.pack \in Packs
  <2>1. CASE t \in left BY <2>1 DEF PacksTypeOK
  <2>2. ASSUME NEW v \in Workers, t = [pack |-> staged[v].pack, files |-> staged[v].written]
        PROVE  t.pack \in Packs
    BY <2>2, <1>2 DEF WholeInv, Essential
  <2>3. QED BY <2>1, <2>2 DEF Temporary
<1>4. QED BY <1>3 DEF Pack, ReadPack

\* A capability index holds named packs only.
LEMMA IndexIsNamed ==
  ASSUME NEW good, \A r \in good : r.named
  PROVE  CapabilityIndex(good) \subseteq NamedIn(good)
BY DEF CapabilityIndex, NamedIn

\* A boot that has fetched one pack more, or read one folder more.
LEMMA GotOne ==
  ASSUME NEW b \in BootType, b.index \subseteq b.known, NEW p \in Packs
  PROVE  LET c == [b EXCEPT !.got = @ \cup {p}, !.next = @ + 1]
         IN  c \in BootType /\ c.index \subseteq c.known
<1>1. b.next + 1 \in Nat \ {0} BY DEF BootType
<1>2. b.got \cup {p} \in SUBSET Packs BY DEF BootType
<1> DEFINE n == b.next + 1
           g == b.got \cup {p}
           c == [b EXCEPT !.got = g, !.next = n]
<1> HIDE DEF n, g
<1>3. n \in Nat \ {0} /\ g \in SUBSET Packs BY <1>1, <1>2 DEF n, g
<1>4. c \in BootType BY <1>3 DEF BootType
<1>5. c.index \subseteq c.known BY DEF BootType
<1>6. QED BY <1>4, <1>5 DEF n, g

LEMMA ReadOne ==
  ASSUME NEW b \in BootType, b.index \subseteq b.known,
         NEW read \in SUBSET ReadPack, NEW skipped \in SUBSET Packs
  PROVE  LET c == [b EXCEPT !.next = @ + 1, !.read = read, !.skipped = skipped]
         IN  c \in BootType /\ c.index \subseteq c.known
<1> DEFINE n == b.next + 1
           c == [b EXCEPT !.next = n, !.read = read, !.skipped = skipped]
<1>1. n \in Nat \ {0} BY DEF BootType
<1> HIDE DEF n
<1>2. c \in BootType BY <1>1 DEF BootType
<1>3. c.index \subseteq c.known BY DEF BootType
<1>4. QED BY <1>2, <1>3 DEF n

-----------------------------------------------------------------------------
\* The invariant holds at first and every step keeps it.

LEMMA NewBootType == NewBoot \in BootType
<1>1. {} \in SUBSET Packs /\ {} \in SUBSET ReadPack OBVIOUS
<1>2. 1 \in Nat \ {0} OBVIOUS
<1>3. QED BY <1>1, <1>2 DEF NewBoot, BootType

LEMMA NoPackType == NoPack \in StagedType
<1>1. {} \in SUBSET Files OBVIOUS
<1>2. QED BY <1>1 DEF NoPack, StagedType

LEMMA PacksInit == Init => PacksInv
<1> SUFFICES ASSUME Init PROVE PacksInv OBVIOUS
<1>2. NewBoot \in BootType BY NewBootType
<1>3. NoPack \in StagedType BY NoPackType
<1>4. PacksTypeOK
  <2>1. dir \in [Packs -> {Gone} \cup SUBSET (Files \cup {"inside"})] BY DEF Init
  <2>2. at \in [Workers -> Stages] BY DEF Init, Stages, Over
  <2>3. staged \in [Workers -> StagedType] BY <1>3 DEF Init
  <2>4. boot \in [Workers -> BootType] BY <1>2 DEF Init
  <2>5. left \subseteq [pack : Packs, files : SUBSET Files] BY DEF Init
  <2>6. alone \in [Workers -> BOOLEAN] /\ boots \in Nat BY DEF Init
  <2>7. QED BY <2>1, <2>2, <2>3, <2>4, <2>5, <2>6 DEF PacksTypeOK
<1>5. WholeInv BY DEF Init, WholeInv, Holding, NoPack
<1>6. IndexesAgree BY DEF Init, IndexesAgree, NewBoot
<1>7. QED BY <1>4, <1>5, <1>6 DEF PacksInv

\* A step that gives one worker a well-formed boot whose indexes agree, at a
\* stage where it holds no pack, and leaves the folder alone.
LEMMA BootStep ==
  ASSUME PacksInv, NEW w \in Workers, NEW b \in BootType, b.index \subseteq b.known,
         NEW stage \in Stages \ Holding, Go(w, stage), boot' = [boot EXCEPT ![w] = b],
         UNCHANGED <<dir, left, staged>>, alone' \in [Workers -> BOOLEAN], boots' \in Nat
  PROVE  PacksInv'
<1>1. PacksTypeOK' BY DEF PacksInv, PacksTypeOK, Go
<1>2. WholeInv' BY DEF PacksInv, PacksTypeOK, WholeInv, Go
<1>3. IndexesAgree' BY DEF PacksInv, PacksTypeOK, IndexesAgree
<1>4. QED BY <1>1, <1>2, <1>3 DEF PacksInv

\* An aborted boot leaves nothing in hand.
LEMMA AbortKeeps ==
  ASSUME PacksInv, NEW w \in Workers, Abort(w) PROVE PacksInv'
<1>1. NoPack \in StagedType /\ NoPack.written = {} BY NoPackType DEF NoPack
<1>2. at' = [at EXCEPT ![w] = "aborted"] /\ "aborted" \in Stages \ Holding
  BY DEF Abort, Go, Stages, Over, Holding
<1>3. PacksTypeOK' BY <1>1, <1>2 DEF PacksInv, PacksTypeOK, Abort
<1>4. WholeInv' BY <1>1, <1>2 DEF PacksInv, PacksTypeOK, WholeInv, Abort
<1>5. IndexesAgree' BY DEF PacksInv, IndexesAgree, Abort
<1>6. QED BY <1>3, <1>4, <1>5 DEF PacksInv

\* The end of a walk, whatever is kept of it.
LEMMA EndWalkKeeps ==
  ASSUME PacksInv, NEW w \in Workers, NEW b \in BootType, b.index \subseteq b.known,
         NEW stage \in Stages \ Holding, EndWalk(w, stage, b)
  PROVE  PacksInv'
<1> DEFINE c == [b EXCEPT !.next = 1, !.read = {}]
<1>1. {} \in SUBSET ReadPack /\ 1 \in Nat \ {0} OBVIOUS
<1>2. c \in BootType BY <1>1 DEF BootType
<1>3. c.index \subseteq c.known BY DEF BootType
<1>4. boot' = [boot EXCEPT ![w] = c] /\ Go(w, stage) /\ UNCHANGED <<dir, left, staged>>
  BY DEF EndWalk
<1>5. alone' \in [Workers -> BOOLEAN] /\ boots' \in Nat BY DEF EndWalk, PacksInv, PacksTypeOK
<1> HIDE DEF c
<1>6. QED BY <1>2, <1>3, <1>4, <1>5, BootStep

\* A boot begins, and a worker looks for packs.
LEMMA BeginKeeps == ASSUME PacksInv, NEW w \in Workers, Begin(w) PROVE PacksInv'
<1>1. NewBoot \in BootType /\ NewBoot.index \subseteq NewBoot.known
  BY NewBootType DEF NewBoot
<1>2. "checking" \in Stages \ Holding BY DEF Stages, Holding
<1>3. alone' \in [Workers -> BOOLEAN] /\ boots' \in Nat BY DEF Begin, PacksInv, PacksTypeOK
<1>4. QED BY <1>1, <1>2, <1>3, BootStep DEF Begin

LEMMA EnsureKeeps == ASSUME PacksInv, NEW w \in Workers, EnsurePacks(w) PROVE PacksInv'
<1>1. PICK stage \in {"refreshing", "fetching"} : Go(w, stage) BY DEF EnsurePacks
<1>2. stage \in Stages \ Holding BY DEF Stages, Walks, Holding
<1>3. boot[w] \in BootType /\ boot[w].index \subseteq boot[w].known
  BY DEF PacksInv, PacksTypeOK, IndexesAgree
<1>4. boot' = [boot EXCEPT ![w] = boot[w]] BY DEF EnsurePacks, PacksInv, PacksTypeOK
<1>5. alone' \in [Workers -> BOOLEAN] /\ boots' \in Nat BY DEF EnsurePacks, PacksInv, PacksTypeOK
<1>6. QED BY <1>1, <1>2, <1>3, <1>4, <1>5, BootStep DEF EnsurePacks

\* A killed worker leaves behind what it had written of a pack.
LEMMA CrashKeeps == ASSUME PacksInv, NEW w \in Workers, Crash(w) PROVE PacksInv'
<1>1. NoPack \in StagedType /\ NoPack.written = {} BY NoPackType DEF NoPack
<1>2. at' = [at EXCEPT ![w] = "off"] /\ "off" \in Stages \ Holding
  BY DEF Crash, Go, Stages, Over, Holding
<1>3. left' \subseteq [pack : Packs, files : SUBSET Files]
  <2>1. CASE staged[w].written = {} BY <2>1 DEF Crash, PacksInv, PacksTypeOK
  <2>2. CASE staged[w].written # {}
    <3>1. staged[w].pack \in Packs /\ staged[w].written \in SUBSET Files
      BY <2>2 DEF PacksInv, PacksTypeOK, WholeInv, StagedType
    <3>2. [pack |-> staged[w].pack, files |-> staged[w].written]
            \in [pack : Packs, files : SUBSET Files]
      BY <3>1
    <3>3. QED BY <2>2, <3>2 DEF Crash, PacksInv, PacksTypeOK
  <2>3. QED BY <2>1, <2>2
<1>4. PacksTypeOK' BY <1>1, <1>2, <1>3 DEF PacksInv, PacksTypeOK, Crash
<1>5. WholeInv' BY <1>1, <1>2 DEF PacksInv, PacksTypeOK, WholeInv, Crash
<1>6. IndexesAgree' BY DEF PacksInv, IndexesAgree, Crash
<1>7. QED BY <1>4, <1>5, <1>6 DEF PacksInv

\* A pack that cannot be got is passed over; one that can is in hand, with
\* its essential files.
LEMMA DownloadKeeps == ASSUME PacksInv, NEW w \in Workers, Download(w) PROVE PacksInv'
<1> DEFINE b == [boot[w] EXCEPT !.next = @ + 1]
           Fetched0(files) == [pack |-> Order[boot[w].next], files |-> files, written |-> {}]
<1>1. boot[w] \in BootType /\ boot[w].index \subseteq boot[w].known
  BY DEF PacksInv, PacksTypeOK, IndexesAgree
<1>2. PICK files \in {{}} \cup {Essential \cup S : S \in SUBSET (Files \ Essential)} :
        IF files = {}
        THEN boot' = [boot EXCEPT ![w].next = @ + 1] /\ UNCHANGED <<at, staged>>
        ELSE /\ staged' = [staged EXCEPT ![w] = Fetched0(files)]
             /\ Go(w, "staging") /\ UNCHANGED boot
  BY DEF Download
<1>3. CASE files = {}
  <2>1. b \in BootType /\ b.index \subseteq b.known BY <1>1 DEF BootType
  <2>2. boot' = [boot EXCEPT ![w] = b] BY <1>2, <1>3
  <2>3. at[w] \in Stages \ Holding /\ Go(w, at[w])
    BY <1>2, <1>3 DEF Download, Go, PacksInv, PacksTypeOK, Stages, Holding
  <2>4. alone' \in [Workers -> BOOLEAN] /\ boots' \in Nat
    BY DEF Download, PacksInv, PacksTypeOK
  <2>5. UNCHANGED <<dir, left, staged>> BY <1>2, <1>3 DEF Download
  <2> HIDE DEF b
  <2>6. QED BY <2>1, <2>2, <2>3, <2>4, <2>5, BootStep
<1>4. CASE files # {}
  <2>1. Essential \subseteq files /\ files \in SUBSET Files
    BY <1>4 DEF Essential, Files, FileOrder, ToSet
  <2>2. Order[boot[w].next] \in Packs BY <1>1, NextIsAPack DEF BootType, Download
  <2>3. Fetched0(files) \in StagedType BY <2>1, <2>2 DEF StagedType
  <2>4. staged' = [staged EXCEPT ![w] = Fetched0(files)] /\ Go(w, "staging") /\ boot' = boot
    BY <1>2, <1>4
  <2>5. PacksTypeOK'
    BY <2>3, <2>4 DEF Download, Go, PacksInv, PacksTypeOK, Stages
  <2>6. WholeInv' BY <2>1, <2>2, <2>4 DEF PacksInv, PacksTypeOK, WholeInv, Go, Holding
  <2>7. IndexesAgree' BY <2>4 DEF PacksInv, IndexesAgree
  <2>8. QED BY <2>5, <2>6, <2>7 DEF PacksInv
<1>5. QED BY <1>3, <1>4

\* A file is written into the temporary folder; after the last one the pack is
\* as whole as it was.
LEMMA StageKeeps == ASSUME PacksInv, NEW w \in Workers, StageFile(w) PROVE PacksInv'
<1> USE DEF PacksInv
<1>1. at[w] = "staging" /\ UNCHANGED <<dir, left, boot, alone, boots>> BY DEF StageFile
<1>2. CASE staged' = staged /\ Go(w, IF dir[staged[w].pack] = Gone THEN "moving" ELSE "clearing")
  <2>1. PICK stage \in {"moving", "clearing"} : Go(w, stage) BY <1>2
  <2>2. PacksTypeOK' BY <1>1, <1>2, <2>1 DEF Go, PacksTypeOK, Stages
  <2>3. WholeInv' BY <1>1, <1>2, <2>1 DEF Go, PacksTypeOK, WholeInv, Holding
  <2>4. IndexesAgree' BY <1>1 DEF IndexesAgree
  <2>5. QED BY <2>2, <2>3, <2>4
<1>3. CASE \E f \in NextFile(w) :
             staged' = [staged EXCEPT ![w].written = @ \cup {f}] /\ UNCHANGED at
  <2>1. PICK f \in NextFile(w) :
          staged' = [staged EXCEPT ![w].written = @ \cup {f}] /\ UNCHANGED at
    BY <1>3
  <2>2. f \in Files BY NextIsAFile
  <2>3. PacksTypeOK' BY <1>1, <2>1, <2>2 DEF PacksTypeOK, StagedType
  <2>4. WholeInv'
    <3>1. staged[w].pack \in Packs BY <1>1 DEF WholeInv, Holding
    <3>2. \A v \in Workers : staged'[v].pack = staged[v].pack /\ staged'[v].files = staged[v].files
      BY <2>1 DEF PacksTypeOK, StagedType
    <3>3. \A v \in Workers \ {w} : staged'[v] = staged[v] BY <2>1 DEF PacksTypeOK
    <3>4. QED BY <2>1, <3>1, <3>2, <3>3 DEF WholeInv
  <2>5. IndexesAgree' BY <1>1 DEF IndexesAgree
  <2>6. QED BY <2>3, <2>4, <2>5
<1>4. QED BY <1>2, <1>3 DEF StageFile

\* A directory is emptied file by file, and removed.
LEMMA ClearKeeps == ASSUME PacksInv, NEW w \in Workers, Clear(w) PROVE PacksInv'
<1> USE DEF PacksInv
<1>1. staged[w].pack \in Packs BY DEF Clear, WholeInv, Holding
<1>2. UNCHANGED <<left, at, staged, boot, alone, boots>> BY DEF Clear
<1>3. PICK f \in In(staged[w].pack) : dir' = [dir EXCEPT ![staged[w].pack] = @ \ {f}] BY DEF Clear
<1>4. dir[staged[w].pack] \in SUBSET (Files \cup {"inside"}) BY <1>1, <1>3 DEF In, PacksTypeOK
<1>5. PacksTypeOK' BY <1>2, <1>3, <1>4 DEF PacksTypeOK
<1>6. QED BY <1>2, <1>5 DEF WholeInv, IndexesAgree

LEMMA ClearedKeeps == ASSUME PacksInv, NEW w \in Workers, Cleared(w) PROVE PacksInv'
<1> USE DEF PacksInv
<1>1. UNCHANGED <<left, staged, boot, alone, boots>> BY DEF Cleared
<1>2. at[w] = "clearing" /\ dir' = [dir EXCEPT ![staged[w].pack] = Gone] BY DEF Cleared
<1>3. PICK S \in SUBSET {v \in Workers \ {w} : at[v] = "clearing" /\ staged[v].pack = staged[w].pack} :
        at' = [v \in Workers |-> IF v = w THEN "moving" ELSE IF v \in S THEN "stale" ELSE at[v]]
  BY DEF Cleared
<1>4. PacksTypeOK'
  <2>1. dir' \in [Packs -> {Gone} \cup SUBSET (Files \cup {"inside"})] BY <1>2 DEF PacksTypeOK
  <2>2. at' \in [Workers -> Stages] BY <1>3 DEF PacksTypeOK, Stages
  <2>3. QED BY <1>1, <2>1, <2>2 DEF PacksTypeOK
<1>5. \A v \in Workers : at'[v] \in Holding => at[v] \in Holding BY <1>2, <1>3 DEF Holding
<1>6. WholeInv' BY <1>1, <1>5 DEF WholeInv
<1>7. QED BY <1>1, <1>4, <1>6 DEF IndexesAgree

\* A pack in hand is moved into place.
LEMMA MoveKeeps == ASSUME PacksInv, NEW w \in Workers, Move(w) PROVE PacksInv'
<1> USE DEF PacksInv
<1> DEFINE p == staged[w].pack
           b == [boot[w] EXCEPT !.got = @ \cup {p}, !.next = @ + 1]
<1>1. p \in Packs /\ staged[w].files \in SUBSET Files
  BY DEF Move, WholeInv, Holding, PacksTypeOK, StagedType
<1>2. NoPack \in StagedType /\ NoPack.written = {} BY NoPackType DEF NoPack
<1>3. boot[w] \in BootType /\ boot[w].index \subseteq boot[w].known BY DEF PacksTypeOK, IndexesAgree
<1>4. b \in BootType /\ b.index \subseteq b.known BY <1>1, <1>3, GotOne
<1>5. boot' = [boot EXCEPT ![w] = b] BY DEF Move
<1>6. dir' = [dir EXCEPT ![p] = IF @ = Gone THEN staged[w].files ELSE @ \cup {"inside"}]
  BY DEF Move
<1>7. staged' = [staged EXCEPT ![w] = NoPack] /\ at' = [at EXCEPT ![w] = "fetching"]
      /\ UNCHANGED <<left, alone, boots>>
  BY DEF Move, Go
<1> HIDE DEF b
<1>8. PacksTypeOK'
  <2>1. dir' \in [Packs -> {Gone} \cup SUBSET (Files \cup {"inside"})]
    BY <1>1, <1>6 DEF PacksTypeOK
  <2>2. at' \in [Workers -> Stages] BY <1>7 DEF PacksTypeOK, Stages
  <2>3. QED BY <1>2, <1>4, <1>5, <1>7, <2>1, <2>2 DEF PacksTypeOK
<1>9. WholeInv' BY <1>2, <1>7 DEF PacksTypeOK, WholeInv, Holding
<1>10. IndexesAgree' BY <1>4, <1>5 DEF PacksTypeOK, IndexesAgree
<1>11. QED BY <1>8, <1>9, <1>10

\* The fetch ends, and a folder is read.
LEMMA FetchedKeeps == ASSUME PacksInv, NEW w \in Workers, Fetched(w) PROVE PacksInv'
<1> USE DEF PacksInv
<1> DEFINE b == [boot[w] EXCEPT !.next = 1]
<1>1. boot[w] \in BootType /\ boot[w].index \subseteq boot[w].known BY DEF PacksTypeOK, IndexesAgree
<1>2. b \in BootType /\ b.index \subseteq b.known BY <1>1 DEF BootType
<1>3. boot' = [boot EXCEPT ![w] = b] BY DEF Fetched
<1>4. "refreshing" \in Stages \ Holding /\ Go(w, "refreshing")
  BY DEF Fetched, Stages, Walks, Holding
<1>5. alone' \in [Workers -> BOOLEAN] /\ boots' \in Nat BY DEF Fetched, PacksTypeOK
<1>6. UNCHANGED <<dir, left, staged>> BY DEF Fetched
<1> HIDE DEF b
<1>7. QED BY <1>2, <1>3, <1>4, <1>5, <1>6, BootStep

LEMMA ReadKeeps == ASSUME PacksInv, NEW w \in Workers, ReadFolder(w) PROVE PacksInv'
<1> USE DEF PacksInv
<1> DEFINE p    == Order[boot[w].next]
           torn == at[w] = "refreshing" /\ "attributes" \in In(p) /\ "profile" \notin In(p)
           b    == [boot[w] EXCEPT
                      !.next    = @ + 1,
                      !.read    = IF Essential \subseteq In(p) THEN @ \cup {Pack(p, In(p), TRUE)} ELSE @,
                      !.skipped = IF torn THEN @ \cup {p} ELSE @]
<1>1. boot[w] \in BootType /\ boot[w].index \subseteq boot[w].known BY DEF PacksTypeOK, IndexesAgree
<1>2. p \in Packs BY <1>1, NextIsAPack DEF BootType, ReadFolder
<1>3. Pack(p, In(p), TRUE) \in ReadPack BY <1>2 DEF Pack, ReadPack
<1>4. boot' = [boot EXCEPT ![w] = b] BY DEF ReadFolder
<1>5. b \in BootType /\ b.index \subseteq b.known
  <2> DEFINE read    == IF Essential \subseteq In(p) THEN boot[w].read \cup {Pack(p, In(p), TRUE)}
                        ELSE boot[w].read
             skipped == IF torn THEN boot[w].skipped \cup {p} ELSE boot[w].skipped
  <2>1. read \in SUBSET ReadPack BY <1>1, <1>3 DEF BootType
  <2>2. skipped \in SUBSET Packs BY <1>1, <1>2 DEF BootType
  <2>3. b = [boot[w] EXCEPT !.next = @ + 1, !.read = read, !.skipped = skipped]
    BY <1>1 DEF BootType
  <2> HIDE DEF b, read, skipped
  <2>4. QED BY <1>1, <2>1, <2>2, <2>3, ReadOne
<1>6. at[w] \in Stages \ Holding /\ Go(w, at[w])
  BY DEF ReadFolder, Go, PacksTypeOK, Stages, Walks, Holding
<1>7. alone' \in [Workers -> BOOLEAN] /\ boots' \in Nat BY DEF ReadFolder, PacksTypeOK
<1>8. UNCHANGED <<dir, left, staged>> BY DEF ReadFolder
<1> HIDE DEF b
<1>9. QED BY <1>4, <1>5, <1>6, <1>7, <1>8, BootStep

-----------------------------------------------------------------------------
\* What the three walks come to.

\* Both indexes are built from the same packs, each of them named.
LEMMA RefreshKeeps == ASSUME PacksInv, NEW w \in Workers, Refresh(w) PROVE PacksInv'
<1> DEFINE packs == Walked(w)
           out   == boot[w].skipped \cup IndexSkips(packs) \cup ContextSkips(packs)
           good  == {r \in packs : r.named /\ r.pack \notin out}
           b     == [boot[w] EXCEPT !.index = CapabilityIndex(good),
                                    !.known = NamedIn(good), !.skipped = out]
<1>1. Abort(w) \/ EndWalk(w, "loading", b) BY DEF Refresh
<1>2. packs \subseteq ReadPack BY WalkedType DEF PacksInv
<1>3. boot[w] \in BootType BY DEF PacksInv, PacksTypeOK
<1>4. CapabilityIndex(good) \subseteq NamedIn(good) BY IndexIsNamed
<1>5. NamedIn(good) \in SUBSET Packs BY <1>2 DEF NamedIn, ReadPack
<1>6. out \in SUBSET Packs
  BY <1>2, <1>3 DEF BootType, IndexSkips, ContextSkips, NamedIn, ReadPack
<1>7. b \in BootType /\ b.index \subseteq b.known
  <2>1. CapabilityIndex(good) \in SUBSET Packs BY <1>4, <1>5
  <2> DEFINE index == CapabilityIndex(good)
             known == NamedIn(good)
  <2>2. index \in SUBSET Packs /\ known \in SUBSET Packs /\ index \subseteq known
    BY <1>4, <1>5, <2>1
  <2> HIDE DEF index, known, out
  <2>3. [boot[w] EXCEPT !.index = index, !.known = known, !.skipped = out] \in BootType
    BY <1>3, <1>6, <2>2 DEF BootType
  <2>4. b.index = index /\ b.known = known BY <1>3 DEF BootType, index, known
  <2>5. b \in BootType BY <2>3 DEF index, known
  <2>6. QED BY <2>2, <2>4, <2>5
<1>8. "loading" \in Stages \ Holding BY DEF Stages, Walks, Holding
<1> HIDE DEF b
<1>9. QED BY <1>1, <1>7, <1>8, AbortKeeps, EndWalkKeeps

LEMMA LoadKeeps == ASSUME PacksInv, NEW w \in Workers, Load(w) PROVE PacksInv'
<1> DEFINE b == [boot[w] EXCEPT !.schemas = PlannerSchemas(Walked(w), boot[w].skipped)]
<1>1. boot[w] \in BootType /\ boot[w].index \subseteq boot[w].known
  BY DEF PacksInv, PacksTypeOK, IndexesAgree
<1>2. CASE Go(w, "refused") /\ UNCHANGED <<dir, left, staged, boot, alone, boots>>
  <2>1. boot' = [boot EXCEPT ![w] = boot[w]] BY <1>2 DEF PacksInv, PacksTypeOK
  <2>2. "refused" \in Stages \ Holding BY DEF Stages, Over, Holding
  <2>3. alone' \in [Workers -> BOOLEAN] /\ boots' \in Nat BY <1>2 DEF PacksInv, PacksTypeOK
  <2>4. QED BY <1>1, <1>2, <2>1, <2>2, <2>3, BootStep
<1>3. CASE EndWalk(w, "offering", b)
  <2>1. PlannerSchemas(Walked(w), boot[w].skipped) \in SUBSET Packs
    BY WalkedType DEF PacksInv, PlannerSchemas, NamedIn, ReadPack
  <2>2. b \in BootType /\ b.index \subseteq b.known BY <1>1, <2>1 DEF BootType
  <2>3. "offering" \in Stages \ Holding BY DEF Stages, Walks, Holding
  <2> HIDE DEF b
  <2>4. QED BY <1>3, <2>2, <2>3, EndWalkKeeps
<1>4. QED BY <1>2, <1>3 DEF Load

LEMMA OfferKeeps == ASSUME PacksInv, NEW w \in Workers, Offer(w) PROVE PacksInv'
<1> DEFINE b == [boot[w] EXCEPT !.forms = {r.pack : r \in Walked(w)} \cap ApiPacks]
<1>1. boot[w] \in BootType /\ boot[w].index \subseteq boot[w].known
  BY DEF PacksInv, PacksTypeOK, IndexesAgree
<1>2. {r.pack : r \in Walked(w)} \cap ApiPacks \in SUBSET Packs
  BY PacksAssumption
<1>3. b \in BootType /\ b.index \subseteq b.known BY <1>1, <1>2 DEF BootType
<1>4. "up" \in Stages \ Holding BY DEF Stages, Over, Holding
<1>5. EndWalk(w, "up", b) BY DEF Offer
<1> HIDE DEF b
<1>6. QED BY <1>3, <1>4, <1>5, EndWalkKeeps

-----------------------------------------------------------------------------
\* The theorems.

LEMMA PacksStep == PacksInv /\ [Next]_vars => PacksInv'
<1> SUFFICES ASSUME PacksInv, [Next]_vars PROVE PacksInv' OBVIOUS
<1>1. CASE UNCHANGED vars
  BY <1>1 DEF vars, PacksInv, PacksTypeOK, WholeInv, IndexesAgree
<1>2. ASSUME NEW w \in Workers,
             \/ Begin(w) \/ Crash(w) \/ EnsurePacks(w)
             \/ Download(w) \/ StageFile(w) \/ Clear(w) \/ Cleared(w) \/ ClearFails(w)
             \/ Move(w) \/ MoveFails(w) \/ Fetched(w)
             \/ ReadFolder(w) \/ Refresh(w) \/ Load(w) \/ Offer(w)
      PROVE  PacksInv'
  <2>1. ClearFails(w) \/ MoveFails(w) => Abort(w) BY DEF ClearFails, MoveFails
  <2>2. QED
    BY <1>2, <2>1, BeginKeeps, CrashKeeps, EnsureKeeps, DownloadKeeps, StageKeeps, ClearKeeps,
       ClearedKeeps, AbortKeeps, MoveKeeps, FetchedKeeps, ReadKeeps, RefreshKeeps, LoadKeeps,
       OfferKeeps
<1>3. QED BY <1>1, <1>2 DEF Next

\* The inductive invariant of the boots: every variable has its type, what is
\* in hand is whole, and the indexes agree (_publish, SchemaPackCache.refresh).
THEOREM PacksInvariance == Spec => []PacksInv
<1>1. QED BY PacksInit, PacksStep, PTL DEF Spec

\* Every variable of the boots keeps its type, for any packs and any workers.
THEOREM PacksTypeCorrect == Spec => []PacksTypeOK
<1>1. PacksInv => PacksTypeOK BY DEF PacksInv
<1>2. QED BY <1>1, PacksInvariance, PTL

\* What a worker routes to it can always build a request for
\* (SchemaPackCache.refresh).
THEOREM IndexesAlwaysAgree == Spec => []IndexesAgree
<1>1. PacksInv => IndexesAgree BY DEF PacksInv
<1>2. QED BY <1>1, PacksInvariance, PTL

\* Only a move puts a directory where there was none, and what it puts there
\* is whole.
LEMMA OnlyAMoveAppears ==
  ASSUME PacksInv, Next, NEW p \in Packs, dir[p] = Gone, dir'[p] # Gone
  PROVE  Essential \subseteq dir'[p]
<1>1. PICK w \in Workers :
        \/ Begin(w) \/ Crash(w) \/ EnsurePacks(w)
        \/ Download(w) \/ StageFile(w) \/ Clear(w) \/ Cleared(w) \/ ClearFails(w)
        \/ Move(w) \/ MoveFails(w) \/ Fetched(w)
        \/ ReadFolder(w) \/ Refresh(w) \/ Load(w) \/ Offer(w)
  BY DEF Next
<1>2. dir' # dir OBVIOUS
<1>3. Clear(w) \/ Cleared(w) \/ Move(w)
  BY <1>1, <1>2 DEF Begin, Crash, EnsurePacks, Download, StageFile, ClearFails, MoveFails,
     Abort, Fetched, ReadFolder, Refresh, Load, Offer, EndWalk
<1>4. ~Cleared(w) BY DEF Cleared, PacksInv, PacksTypeOK
<1>5. ~Clear(w) BY DEF Clear, In, PacksInv, PacksTypeOK
<1>6. CASE Move(w)
  <2>1. dir' = [dir EXCEPT ![staged[w].pack] =
                  IF @ = Gone THEN staged[w].files ELSE @ \cup {"inside"}]
    BY <1>6 DEF Move
  <2>2. Essential \subseteq staged[w].files BY <1>6 DEF Move, PacksInv, WholeInv, Holding
  <2>3. QED BY <2>1, <2>2 DEF PacksInv, PacksTypeOK
<1>7. QED BY <1>3, <1>4, <1>5, <1>6

\* A version directory that was not there appears whole, whoever else boots
\* and whoever is killed (_publish).
THEOREM PacksAppearWhole == Spec => AppearsWhole
<1> DEFINE Whole == \A p \in Packs : dir[p] = Gone /\ dir'[p] # Gone => Essential \subseteq dir'[p]
<1>1. PacksInv /\ [Next]_vars => [Whole]_dir
  <2> SUFFICES ASSUME PacksInv, [Next]_vars, dir' # dir PROVE Whole OBVIOUS
  <2>1. Next BY DEF vars
  <2>2. QED BY <2>1, OnlyAMoveAppears
<1>2. QED BY <1>1, PacksInvariance, PTL DEF Spec, AppearsWhole

-----------------------------------------------------------------------------
\* A worker that has the folder to itself.

Whole == {p \in Packs : Essential \subseteq In(p)}

\* What a walk has read, and found torn, before the n-th pack.
ReadBefore(n) ==
  {Pack(Order[k], In(Order[k]), TRUE) :
     k \in {j \in DOMAIN Order : j < n /\ Essential \subseteq In(Order[j])}}
TornBefore(n) ==
  {Order[k] : k \in {j \in DOMAIN Order :
     j < n /\ "attributes" \in In(Order[j]) /\ "profile" \notin In(Order[j])}}

\* Where its boot stands, stage by stage: what it has fetched is there, what a
\* walk has read is the folder as it is, and what came of the walks before is
\* what the folder lets it route to.
AloneAt(w) ==
  /\ \A u \in Workers \ {w} : at[u] \in Over
  /\ \A p \in boot[w].got : Essential \subseteq In(p)
  /\ at[w] = "checking" => boot[w] = NewBoot
  /\ at[w] \in {"fetching"} \cup Holding =>
       /\ boot[w].read = {} /\ boot[w].skipped = {}
       /\ \A p \in boot[w].got : \E k \in DOMAIN Order : k < boot[w].next /\ Order[k] = p
  /\ at[w] \in Holding => boot[w].next \in DOMAIN Order /\ staged[w].pack = Order[boot[w].next]
  /\ at[w] = "moving" => dir[staged[w].pack] = Gone
  /\ at[w] \in Walks => boot[w].read = ReadBefore(boot[w].next)
  /\ at[w] = "refreshing" => boot[w].skipped = TornBefore(boot[w].next)
  /\ at[w] \in {"loading", "offering", "up"} =>
       boot[w].index = Routable /\ boot[w].skipped \cap Routable = {}
  /\ at[w] \in {"offering", "up"} =>
       Routable \ (ApiPacks \cup NoFilters) \subseteq boot[w].schemas
  /\ at[w] = "up" => Routable \cap ApiPacks \subseteq boot[w].forms
  /\ at[w] = "refused" => boot[w].got = {} /\ Routable = {}

AloneInv == \A w \in Workers : alone[w] => AloneAt(w)

\* What is in the folder stays when nobody writes to it.
LEMMA FolderStays ==
  ASSUME dir' = dir
  PROVE  /\ Routable' = Routable /\ Whole' = Whole
         /\ \A p : In(p)' = In(p)
         /\ \A n : ReadBefore(n)' = ReadBefore(n) /\ TornBefore(n)' = TornBefore(n)
BY DEF Routable, Whole, In, ReadBefore, TornBefore, Pack

\* The packs' order.
LEMMA OrderFacts ==
  /\ DOMAIN Order = 1 .. Len(Order) /\ Len(Order) \in Nat
  /\ \A p \in Packs : \E k \in DOMAIN Order : Order[k] = p
  /\ \A k \in DOMAIN Order : Order[k] \in Packs
  /\ \A i, j \in DOMAIN Order : Order[i] = Order[j] => i = j
<1>1. Order \in Seq(Packs) /\ \A i, j \in DOMAIN Order : Order[i] = Order[j] => i = j
  BY PacksAssumption DEF PacksAssumption
<1>2. \A p \in Packs : \E k \in DOMAIN Order : Order[k] = p
  BY DEF Packs, ToSet
<1> QED BY <1>1, <1>2

\* A walk that has read nothing.
LEMMA NothingBefore == ReadBefore(1) = {} /\ TornBefore(1) = {}
<1>1. \A k \in DOMAIN Order : ~(k < 1)
  BY OrderFacts
<1> QED BY <1>1 DEF ReadBefore, TornBefore

\* A walk that read every folder has the whole packs by their names, and no
\* other pack by its name.
LEMMA WholeWalk ==
  ASSUME PacksTypeOK, NEW w \in Workers, AloneAt(w), at[w] \in Walks, boot[w].next > Len(Order)
  PROVE  /\ NamedIn(Walked(w)) = Whole
         /\ \A r \in Walked(w) : r.named => r = Pack(r.pack, In(r.pack), TRUE)
         /\ \A p \in Whole : Pack(p, In(p), TRUE) \in Walked(w)
<1>1. boot[w].next \in Nat
  BY DEF PacksTypeOK, BootType
<1>2. boot[w].read = ReadBefore(boot[w].next)
  BY DEF AloneAt
<1>3. \A k \in DOMAIN Order : k < boot[w].next
  BY <1>1, OrderFacts
<1>4. \A p \in Whole : Pack(p, In(p), TRUE) \in boot[w].read
  <2> SUFFICES ASSUME NEW p \in Whole PROVE Pack(p, In(p), TRUE) \in ReadBefore(boot[w].next)
    BY <1>2
  <2>1. PICK k \in DOMAIN Order : Order[k] = p
    BY OrderFacts DEF Whole
  <2> QED BY <1>3, <2>1 DEF ReadBefore, Whole
<1>5. \A r \in boot[w].read : r = Pack(r.pack, In(r.pack), TRUE) /\ r.pack \in Whole
  <2> SUFFICES ASSUME NEW r \in ReadBefore(boot[w].next)
               PROVE  r = Pack(r.pack, In(r.pack), TRUE) /\ r.pack \in Whole
    BY <1>2
  <2>1. PICK k \in DOMAIN Order : /\ r = Pack(Order[k], In(Order[k]), TRUE)
                                  /\ Essential \subseteq In(Order[k])
    BY DEF ReadBefore
  <2>2. r.pack = Order[k]
    BY <2>1 DEF Pack
  <2> QED BY <2>1, <2>2, OrderFacts DEF Whole
<1>6. \A r \in Walked(w) : r.named => r \in boot[w].read
  BY DEF Walked, Pack
<1>7. \A p \in Whole : Pack(p, In(p), TRUE) \in Walked(w)
  BY <1>4 DEF Walked
<1>8. NamedIn(Walked(w)) = Whole
  <2>1. \A p \in Whole : Pack(p, In(p), TRUE).pack = p /\ Pack(p, In(p), TRUE).named
    BY DEF Pack
  <2> QED BY <1>5, <1>6, <1>7, <2>1 DEF NamedIn
<1> QED BY <1>5, <1>6, <1>7, <1>8

\* Every other worker is over, so nobody else does anything but begin, and then
\* the folder is shared.
LEMMA NobodyElse ==
  ASSUME NEW w \in Workers, alone[w], AloneAt(w), NEW v \in Workers \ {w},
         \/ Crash(v) \/ EnsurePacks(v)
         \/ Download(v) \/ StageFile(v) \/ Clear(v) \/ Cleared(v) \/ ClearFails(v)
         \/ Move(v) \/ MoveFails(v) \/ Fetched(v)
         \/ ReadFolder(v) \/ Refresh(v) \/ Load(v) \/ Offer(v)
  PROVE  FALSE
<1>1. at[v] \in Over
  BY DEF AloneAt
<1> QED BY <1>1 DEF Over, Walks, Crash, EnsurePacks, Download, StageFile, Clear, Cleared, ClearFails,
       Move, MoveFails, Fetched, ReadFolder, Refresh, Load, Offer

\* A worker that leaves off has nothing to show.
LEMMA AloneLeaves ==
  ASSUME PacksTypeOK, NEW w \in Workers, AloneAt(w), dir' = dir, boot' = boot,
         at' = [at EXCEPT ![w] = "off"] \/ at' = [at EXCEPT ![w] = "aborted"]
  PROVE  AloneAt(w)'
<1>1. at' \in [Workers -> Stages] /\ at'[w] \in {"off", "aborted"} /\ \A u \in Workers \ {w} : at'[u] = at[u]
  BY DEF PacksTypeOK, Stages, Over
<1> QED BY <1>1, FolderStays DEF AloneAt, Holding, Walks

\* A worker begins with nothing fetched.
LEMMA AloneBegins ==
  ASSUME PacksTypeOK, NEW w \in Workers, Begin(w), alone'[w]
  PROVE  AloneAt(w)'
<1>1. /\ at' = [at EXCEPT ![w] = "checking"] /\ boot' = [boot EXCEPT ![w] = NewBoot]
      /\ dir' = dir /\ \A u \in Workers \ {w} : at[u] \in Over
  BY DEF Begin, Go
<1>2. at'[w] = "checking" /\ boot'[w] = NewBoot /\ \A u \in Workers \ {w} : at'[u] \in Over
  BY <1>1 DEF PacksTypeOK
<1> QED BY <1>2 DEF AloneAt, NewBoot, Holding, Walks

\* It goes on to fetch, or to read the folder from its first pack.
LEMMA AloneChecks ==
  ASSUME PacksTypeOK, NEW w \in Workers, AloneAt(w), EnsurePacks(w)
  PROVE  AloneAt(w)'
<1>1. /\ at[w] = "checking" /\ boot' = boot /\ dir' = dir
      /\ at'[w] \in {"refreshing", "fetching"} /\ \A u \in Workers \ {w} : at'[u] = at[u]
  BY DEF EnsurePacks, Go, PacksTypeOK
<1>2. boot[w] = NewBoot
  BY <1>1 DEF AloneAt
<1> QED BY <1>1, <1>2, NothingBefore, FolderStays DEF AloneAt, NewBoot, Holding, Walks

\* A pack that could not be got is passed over, one that was got is in hand.
LEMMA AloneDownloads ==
  ASSUME PacksTypeOK, NEW w \in Workers, AloneAt(w), Download(w)
  PROVE  AloneAt(w)'
<1>1. /\ at[w] = "fetching" /\ boot[w].next <= Len(Order) /\ dir' = dir
      /\ boot[w].next \in DOMAIN Order
  BY OrderFacts DEF Download, PacksTypeOK, BootType
<1>2. CASE boot' = [boot EXCEPT ![w].next = @ + 1] /\ UNCHANGED <<at, staged>>
  <2>1. /\ boot'[w].next = boot[w].next + 1 /\ boot'[w].got = boot[w].got
        /\ boot'[w].read = boot[w].read /\ boot'[w].skipped = boot[w].skipped
    BY <1>2 DEF PacksTypeOK, BootType
  <2>2. \A k \in DOMAIN Order : k < boot[w].next => k < boot'[w].next
    BY <1>1, <2>1, OrderFacts
  <2> QED BY <1>1, <1>2, <2>1, <2>2, FolderStays DEF AloneAt, Holding, Walks
<1>3. ASSUME NEW files,
             staged' = [staged EXCEPT ![w] =
                          [pack |-> Order[boot[w].next], files |-> files, written |-> {}]],
             Go(w, "staging"), boot' = boot
      PROVE  AloneAt(w)'
  <2>1. staged'[w].pack = Order[boot[w].next]
    BY <1>3 DEF PacksTypeOK
  <2>2. at'[w] = "staging" /\ \A u \in Workers \ {w} : at'[u] = at[u]
    BY <1>3 DEF Go, PacksTypeOK
  <2> QED BY <1>1, <1>3, <2>1, <2>2, FolderStays DEF AloneAt, Holding, Walks
<1> QED BY <1>2, <1>3 DEF Download

\* The pack in hand is moved only to where there is none, or after a clearing.
LEMMA AloneStages ==
  ASSUME PacksTypeOK, NEW w \in Workers, AloneAt(w), StageFile(w)
  PROVE  AloneAt(w)'
<1>1. at[w] = "staging" /\ dir' = dir /\ boot' = boot
  BY DEF StageFile
<1>2. staged'[w].pack = staged[w].pack
  BY DEF StageFile, PacksTypeOK, StagedType
<1>3. /\ at'[w] \in {"staging", "moving", "clearing"}
      /\ at'[w] = "moving" => dir[staged[w].pack] = Gone
      /\ \A u \in Workers \ {w} : at'[u] = at[u]
  BY <1>1 DEF StageFile, Go, PacksTypeOK
<1> QED BY <1>1, <1>2, <1>3, FolderStays DEF AloneAt, Holding, Walks, Over

\* The pack in hand is none of those already fetched.
LEMMA NotFetchedYet ==
  ASSUME PacksTypeOK, NEW w \in Workers, AloneAt(w), at[w] \in Holding
  PROVE  staged[w].pack \in Packs /\ staged[w].pack \notin boot[w].got
<1>1. boot[w].next \in DOMAIN Order /\ staged[w].pack = Order[boot[w].next]
  BY DEF AloneAt
<1>2. \A p \in boot[w].got : \E k \in DOMAIN Order : k < boot[w].next /\ Order[k] = p
  BY DEF AloneAt
<1> QED BY <1>1, <1>2, OrderFacts

\* Only the directory of the pack in hand is emptied, and it was not fetched yet.
LEMMA AloneClears ==
  ASSUME PacksTypeOK, NEW w \in Workers, AloneAt(w), Clear(w) \/ Cleared(w)
  PROVE  AloneAt(w)'
<1> DEFINE p == staged[w].pack
<1>1. at[w] = "clearing" /\ boot' = boot /\ staged' = staged
  BY DEF Clear, Cleared
<1>2. p \in Packs /\ p \notin boot[w].got
  BY <1>1, NotFetchedYet DEF Holding
<1>3. \A q \in Packs \ {p} : dir'[q] = dir[q]
  BY <1>2 DEF Clear, Cleared, PacksTypeOK
<1>4. \A q \in boot[w].got : q \in Packs /\ In(q)' = In(q)
  BY <1>2, <1>3 DEF In, PacksTypeOK, BootType
<1>5. /\ at'[w] \in {"clearing", "moving"} /\ (at'[w] = "moving" => dir'[p] = Gone)
      /\ \A u \in Workers \ {w} : at'[u] = at[u]
  <2>1. CASE Clear(w)
    BY <1>1, <2>1 DEF Clear
  <2>2. CASE Cleared(w)
    <3>1. \A u \in Workers \ {w} : at[u] # "clearing"
      BY DEF AloneAt, Over
    <3>2. at' = [v \in Workers |-> IF v = w THEN "moving" ELSE at[v]]
      BY <2>2, <3>1 DEF Cleared
    <3>3. dir'[p] = Gone
      BY <1>2, <2>2 DEF Cleared, PacksTypeOK
    <3> QED BY <3>2, <3>3
  <2> QED BY <2>1, <2>2
<1> QED BY <1>1, <1>4, <1>5 DEF AloneAt, Holding, Walks, Over

\* With nobody else to put one there, a fetched pack lands in its own directory,
\* whole, and what was fetched before it stays.
LEMMA AloneMoves ==
  ASSUME PacksTypeOK, WholeInv, NEW w \in Workers, AloneAt(w), Move(w)
  PROVE  AloneAt(w)'
<1> DEFINE p == staged[w].pack
           n == boot[w].next
<1>1. /\ at[w] = "moving"
      /\ dir' = [dir EXCEPT ![p] = IF @ = Gone THEN staged[w].files ELSE @ \cup {"inside"}]
      /\ boot' = [boot EXCEPT ![w].got = @ \cup {p}, ![w].next = @ + 1]
      /\ at' = [at EXCEPT ![w] = "fetching"]
  BY DEF Move, Go
<1>2. /\ p \in Packs /\ p \notin boot[w].got /\ n \in DOMAIN Order /\ Order[n] = p
      /\ Essential \subseteq staged[w].files /\ dir[p] = Gone
  BY <1>1, NotFetchedYet DEF AloneAt, WholeInv, Holding
<1>3. /\ boot'[w].got = boot[w].got \cup {p} /\ boot'[w].next = n + 1
      /\ boot'[w].read = boot[w].read /\ boot'[w].skipped = boot[w].skipped
  BY <1>1 DEF PacksTypeOK, BootType
<1>4. \A q : q = p => Essential \subseteq In(q)'
  <2>1. dir'[p] = staged[w].files
    BY <1>1, <1>2 DEF PacksTypeOK
  <2>2. staged[w].files \in SUBSET (Files \cup {"inside"})
    BY DEF PacksTypeOK, StagedType
  <2>3. staged[w].files # Gone
    BY <2>2, PacksAssumption DEF PacksAssumption
  <2>4. \A q : q = p => dir'[q] = staged[w].files
    BY <2>1
  <2> QED BY <1>2, <2>3, <2>4 DEF In
<1>5. \A q \in boot[w].got : In(q)' = In(q)
  BY <1>1, <1>2 DEF In, PacksTypeOK, BootType
<1>6. \A q \in boot'[w].got : Essential \subseteq In(q)'
  <2>1. \A q \in boot[w].got : Essential \subseteq In(q)
    BY DEF AloneAt
  <2> HIDE DEF p
  <2> QED BY <1>3, <1>4, <1>5, <2>1
<1>7. \A q \in boot'[w].got : \E k \in DOMAIN Order : k < boot'[w].next /\ Order[k] = q
  <2>1. \A k \in DOMAIN Order : k < n => k < n + 1
    BY <1>2, OrderFacts
  <2>2. n < n + 1
    BY <1>2, OrderFacts
  <2>3. \A q \in boot[w].got : \E k \in DOMAIN Order : k < n /\ Order[k] = q
    BY <1>1 DEF AloneAt, Holding
  <2> HIDE DEF n
  <2> QED BY <1>2, <1>3, <2>1, <2>2, <2>3
<1>8. /\ at'[w] = "fetching" /\ \A u \in Workers \ {w} : at'[u] = at[u]
      /\ boot[w].read = {} /\ boot[w].skipped = {}
  BY <1>1 DEF PacksTypeOK, AloneAt, Holding
<1> QED BY <1>3, <1>6, <1>7, <1>8 DEF AloneAt, Holding, Walks

\* The first walk starts with nothing read.
LEMMA AloneFetched ==
  ASSUME PacksTypeOK, NEW w \in Workers, AloneAt(w), Fetched(w)
  PROVE  AloneAt(w)'
<1>1. at[w] = "fetching" /\ dir' = dir
  BY DEF Fetched
<1>2. /\ boot'[w].next = 1 /\ boot'[w].got = boot[w].got
      /\ boot'[w].read = {} /\ boot'[w].skipped = {}
  BY <1>1 DEF Fetched, PacksTypeOK, BootType, AloneAt
<1>3. at'[w] = "refreshing" /\ \A u \in Workers \ {w} : at'[u] = at[u]
  BY DEF Fetched, Go, PacksTypeOK
<1> QED BY <1>1, <1>2, <1>3, NothingBefore, FolderStays DEF AloneAt, Holding, Walks

\* A walk reads the next folder as it is.
LEMMA AloneReads ==
  ASSUME PacksTypeOK, NEW w \in Workers, AloneAt(w), ReadFolder(w)
  PROVE  AloneAt(w)'
<1> DEFINE n == boot[w].next
           p == Order[n]
           torn == at[w] = "refreshing" /\ "attributes" \in In(p) /\ "profile" \notin In(p)
<1>1. at[w] \in Walks /\ n \in DOMAIN Order /\ dir' = dir /\ at' = at
  <2>1. at[w] \in Walks /\ boot[w].next <= Len(Order) /\ dir' = dir /\ at' = at
    BY DEF ReadFolder
  <2>2. boot[w].next \in Nat \ {0}
    BY DEF PacksTypeOK, BootType
  <2> QED BY <2>1, <2>2, OrderFacts
<1>2. boot' = [boot EXCEPT
        ![w].next    = @ + 1,
        ![w].read    = IF Essential \subseteq In(p) THEN @ \cup {Pack(p, In(p), TRUE)} ELSE @,
        ![w].skipped = IF torn THEN @ \cup {p} ELSE @]
  BY DEF ReadFolder
<1>3. boot[w] \in BootType /\ w \in DOMAIN boot
  BY DEF PacksTypeOK
<1>4. /\ boot[w].read = ReadBefore(n)
      /\ at[w] = "refreshing" => boot[w].skipped = TornBefore(n)
  BY <1>1 DEF AloneAt
<1> HIDE DEF torn, p
<1>5. /\ boot'[w].next = n + 1
      /\ boot'[w].read = IF Essential \subseteq In(p) THEN boot[w].read \cup {Pack(p, In(p), TRUE)}
                         ELSE boot[w].read
      /\ boot'[w].skipped = IF torn THEN boot[w].skipped \cup {p} ELSE boot[w].skipped
      /\ boot'[w].got = boot[w].got /\ boot'[w].index = boot[w].index
      /\ boot'[w].schemas = boot[w].schemas /\ boot'[w].forms = boot[w].forms
  BY <1>2, <1>3 DEF BootType
<1>6. \A k \in DOMAIN Order : k < n + 1 <=> k < n \/ k = n
  BY <1>1, OrderFacts
<1> HIDE DEF n
<1>7. ReadBefore(n + 1) = IF Essential \subseteq In(p) THEN ReadBefore(n) \cup {Pack(p, In(p), TRUE)}
                          ELSE ReadBefore(n)
  BY <1>1, <1>6 DEF ReadBefore, p
<1>8. TornBefore(n + 1) = IF "attributes" \in In(p) /\ "profile" \notin In(p)
                          THEN TornBefore(n) \cup {p} ELSE TornBefore(n)
  BY <1>1, <1>6 DEF TornBefore, p
<1>9. boot'[w].read = ReadBefore(n + 1)
  BY <1>4, <1>5, <1>7
<1>10. at[w] = "refreshing" => boot'[w].skipped = TornBefore(n + 1)
  BY <1>4, <1>5, <1>8 DEF torn
<1>11. at[w] # "refreshing" => boot'[w].skipped = boot[w].skipped
  BY <1>5 DEF torn
<1>12. \A q \in boot'[w].got : Essential \subseteq In(q)'
  BY <1>1, <1>5, FolderStays DEF AloneAt
<1>13. at[w] \in {"loading", "offering", "up"} =>
         boot'[w].index = Routable' /\ boot'[w].skipped \cap Routable' = {}
  <2>1. at[w] \in {"loading", "offering", "up"} =>
          boot[w].index = Routable /\ boot[w].skipped \cap Routable = {}
    BY DEF AloneAt
  <2> QED BY <1>1, <1>5, <1>11, <2>1, FolderStays
<1>14. at[w] \in {"offering", "up"} => Routable' \ (ApiPacks \cup NoFilters) \subseteq boot'[w].schemas
  BY <1>1, <1>5, FolderStays DEF AloneAt
<1>15. (boot[w].read = ReadBefore(boot[w].next))'
  BY <1>1, <1>5, <1>9, FolderStays
<1>16. at'[w] = "refreshing" => (boot[w].skipped = TornBefore(boot[w].next))'
  BY <1>1, <1>5, <1>10, FolderStays
<1>17. \A u \in Workers \ {w} : at'[u] \in Over
  BY <1>1 DEF AloneAt
<1> QED BY <1>1, <1>12, <1>13, <1>14, <1>15, <1>16, <1>17 DEF AloneAt, Walks, Holding

\* What a walk that ends leaves behind.
LEMMA WalkEnds ==
  ASSUME PacksTypeOK, NEW w \in Workers, NEW stage, NEW held, EndWalk(w, stage, held)
  PROVE  /\ boot'[w] = [held EXCEPT !.next = 1, !.read = {}] /\ dir' = dir
         /\ at'[w] = stage /\ \A u \in Workers \ {w} : at'[u] = at[u]
BY DEF EndWalk, Go, PacksTypeOK

\* What the folder lets a worker route to are whole packs.
LEMMA RoutableAreWhole ==
  /\ Routable \subseteq Whole \ (NoEntry \cup NoContext)
  /\ \A p \in Whole \ (NoEntry \cup NoContext) :
       p \in Routable <=> p \in ApiPacks \/ "examples" \in In(p)
BY DEF Routable, Whole

\* The index has what the folder lets the worker route to, and nothing of that
\* is left out of it.
LEMMA AloneRefreshes ==
  ASSUME PacksTypeOK, NEW w \in Workers, AloneAt(w), Refresh(w)
  PROVE  AloneAt(w)'
<1> DEFINE packs == Walked(w)
           out   == boot[w].skipped \cup IndexSkips(packs) \cup ContextSkips(packs)
           good  == {r \in packs : r.named /\ r.pack \notin out}
           held  == [boot[w] EXCEPT !.index = CapabilityIndex(good),
                                    !.known = NamedIn(good), !.skipped = out]
<1>1. /\ at[w] = "refreshing" /\ boot[w].next > Len(Order)
      /\ Abort(w) \/ EndWalk(w, "loading", held)
  BY DEF Refresh
<1>2. CASE Abort(w)
  BY <1>2, AloneLeaves DEF Abort, Go
<1>3. CASE EndWalk(w, "loading", held)
  <2>1. /\ NamedIn(packs) = Whole
        /\ \A r \in packs : r.named => r = Pack(r.pack, In(r.pack), TRUE)
        /\ \A p \in Whole : Pack(p, In(p), TRUE) \in packs
    BY <1>1, WholeWalk DEF Walks
  <2>2. boot[w].skipped \cap Whole = {}
    <3>1. boot[w].skipped = TornBefore(boot[w].next)
      BY <1>1 DEF AloneAt
    <3> QED BY <3>1 DEF TornBefore, Whole, Essential
  <2>3. out = boot[w].skipped \cup (Whole \cap (NoEntry \cup NoContext))
    BY <2>1 DEF IndexSkips, ContextSkips
  <2> HIDE DEF packs, out
  <2>4. \A p \in Whole : p \notin out <=> p \notin NoEntry \cup NoContext
    BY <2>2, <2>3
  <2>5. out \cap Routable = {}
    BY <2>4, RoutableAreWhole
  <2>6. \A r \in good : /\ r.pack \in Whole \ (NoEntry \cup NoContext)
                        /\ r.examples = ("examples" \in In(r.pack))
    <3> SUFFICES ASSUME NEW r \in good
                 PROVE  /\ r.pack \in Whole \ (NoEntry \cup NoContext)
                        /\ r.examples = ("examples" \in In(r.pack))
      OBVIOUS
    <3>1. r \in packs /\ r.named /\ r.pack \notin out
      OBVIOUS
    <3>2. r = Pack(r.pack, In(r.pack), TRUE)
      BY <2>1, <3>1
    <3>3. r.examples = ("examples" \in In(r.pack))
      BY <3>2 DEF Pack
    <3>4. r.pack \in Whole
      BY <2>1, <3>1 DEF NamedIn
    <3> QED BY <2>4, <3>1, <3>3, <3>4
  <2>7. \A p \in Whole \ (NoEntry \cup NoContext) : \E r \in good :
          r.pack = p /\ r.examples = ("examples" \in In(p))
    <3> SUFFICES ASSUME NEW p \in Whole \ (NoEntry \cup NoContext)
                 PROVE  \E r \in good : r.pack = p /\ r.examples = ("examples" \in In(p))
      OBVIOUS
    <3> DEFINE r == Pack(p, In(p), TRUE)
    <3>1. r.pack = p /\ r.named /\ r.examples = ("examples" \in In(p))
      BY DEF Pack
    <3>2. r \in packs
      BY <2>1
    <3> HIDE DEF r
    <3>3. r \in good
      BY <2>4, <3>1, <3>2
    <3> QED BY <3>1, <3>3
  <2> HIDE DEF good
  <2>8. CapabilityIndex(good) = Routable
    <3>1. \A p \in CapabilityIndex(good) : p \in Routable
      <4> SUFFICES ASSUME NEW r \in good, r.pack \in ApiPacks \/ r.examples
                   PROVE  r.pack \in Routable
        BY DEF CapabilityIndex
      <4> QED BY <2>6, RoutableAreWhole
    <3>2. \A p \in Routable : p \in CapabilityIndex(good)
      <4> SUFFICES ASSUME NEW p \in Routable PROVE p \in CapabilityIndex(good)
        OBVIOUS
      <4>1. p \in Whole \ (NoEntry \cup NoContext) /\ (p \in ApiPacks \/ "examples" \in In(p))
        BY RoutableAreWhole
      <4>2. PICK r \in good : r.pack = p /\ r.examples = ("examples" \in In(p))
        BY <2>7, <4>1
      <4> QED BY <4>1, <4>2 DEF CapabilityIndex
    <3> QED BY <3>1, <3>2
  <2>9. /\ boot'[w] = [held EXCEPT !.next = 1, !.read = {}] /\ dir' = dir
        /\ at'[w] = "loading" /\ \A u \in Workers \ {w} : at'[u] = at[u]
    <3> HIDE DEF held
    <3> QED BY <1>3, WalkEnds
  <2>10. /\ boot'[w].next = 1 /\ boot'[w].read = {} /\ boot'[w].got = boot[w].got
         /\ boot'[w].index = Routable /\ boot'[w].skipped = out
    <3>1. boot[w] \in BootType
      BY DEF PacksTypeOK
    <3> QED BY <2>8, <2>9, <3>1 DEF BootType
  <2> HIDE DEF held
  <2> QED BY <2>5, <2>9, <2>10, NothingBefore, FolderStays DEF AloneAt, Walks, Holding
<1> QED BY <1>1, <1>2, <1>3

\* The planner has the schemas of the packs that are not forms and list filters.
LEMMA AloneLoads ==
  ASSUME PacksTypeOK, NEW w \in Workers, AloneAt(w), Load(w)
  PROVE  AloneAt(w)'
<1> DEFINE packs == Walked(w)
           held  == [boot[w] EXCEPT !.schemas = PlannerSchemas(packs, boot[w].skipped)]
<1>1. at[w] = "loading" /\ boot[w].next > Len(Order)
  BY DEF Load
<1>2. NamedIn(packs) = Whole
  BY <1>1, WholeWalk DEF Walks
<1>3. boot[w].index = Routable /\ boot[w].skipped \cap Routable = {}
  BY <1>1 DEF AloneAt
<1>4. \A p \in boot[w].got : p \in Whole
  BY DEF AloneAt, Whole, PacksTypeOK, BootType
<1>5. CASE packs = {}
  <2>1. Whole = {}
    BY <1>2, <1>5 DEF NamedIn
  <2>2. boot[w].got = {} /\ Routable = {}
    BY <1>4, <2>1, RoutableAreWhole
  <2>3. dir' = dir /\ boot' = boot /\ at'[w] = "refused" /\ \A u \in Workers \ {w} : at'[u] = at[u]
    BY <1>5 DEF Load, Go, PacksTypeOK
  <2> QED BY <2>2, <2>3, FolderStays DEF AloneAt, Walks, Holding
<1>6. CASE packs # {}
  <2>1. EndWalk(w, "offering", held)
    BY <1>6 DEF Load
  <2>2. /\ boot'[w] = [held EXCEPT !.next = 1, !.read = {}] /\ dir' = dir
        /\ at'[w] = "offering" /\ \A u \in Workers \ {w} : at'[u] = at[u]
    <3> HIDE DEF held
    <3> QED BY <2>1, WalkEnds
  <2>3. /\ boot'[w].next = 1 /\ boot'[w].read = {} /\ boot'[w].got = boot[w].got
        /\ boot'[w].index = Routable /\ boot'[w].skipped = boot[w].skipped
        /\ boot'[w].schemas = PlannerSchemas(packs, boot[w].skipped)
    <3>1. boot[w] \in BootType
      BY DEF PacksTypeOK
    <3> QED BY <1>3, <2>2, <3>1 DEF BootType
  <2>4. Routable \ (ApiPacks \cup NoFilters) \subseteq PlannerSchemas(packs, boot[w].skipped)
    BY <1>2, <1>3, RoutableAreWhole DEF PlannerSchemas
  <2> HIDE DEF held, packs
  <2> QED BY <1>3, <2>2, <2>3, <2>4, NothingBefore, FolderStays DEF AloneAt, Walks, Holding
<1> QED BY <1>5, <1>6

\* The forms are those of every pack they can be built from.
LEMMA AloneOffers ==
  ASSUME PacksTypeOK, NEW w \in Workers, AloneAt(w), Offer(w)
  PROVE  AloneAt(w)'
<1> DEFINE forms == {r.pack : r \in Walked(w)} \cap ApiPacks
           held  == [boot[w] EXCEPT !.forms = forms]
<1>1. at[w] = "offering" /\ boot[w].next > Len(Order) /\ EndWalk(w, "up", held)
  BY DEF Offer
<1>2. /\ boot'[w] = [held EXCEPT !.next = 1, !.read = {}] /\ dir' = dir
      /\ at'[w] = "up" /\ \A u \in Workers \ {w} : at'[u] = at[u]
  <2> HIDE DEF held
  <2> QED BY <1>1, WalkEnds
<1>3. NamedIn(Walked(w)) = Whole
  BY <1>1, WholeWalk DEF Walks
<1>4. Routable \cap ApiPacks \subseteq forms
  BY <1>3, RoutableAreWhole DEF NamedIn
<1> HIDE DEF forms
<1>5. /\ boot'[w].got = boot[w].got /\ boot'[w].index = boot[w].index
      /\ boot'[w].skipped = boot[w].skipped /\ boot'[w].schemas = boot[w].schemas
      /\ boot'[w].forms = forms
  <2>1. boot[w] \in BootType
    BY DEF PacksTypeOK
  <2> QED BY <1>2, <2>1 DEF BootType
<1> HIDE DEF held
<1> QED BY <1>1, <1>2, <1>4, <1>5, FolderStays DEF AloneAt, Walks, Holding

\* Each step of a worker that is alone in the folder.
LEMMA AloneSteps ==
  ASSUME PacksTypeOK, WholeInv, NEW w \in Workers, AloneAt(w),
         \/ Crash(w) \/ EnsurePacks(w)
         \/ Download(w) \/ StageFile(w) \/ Clear(w) \/ Cleared(w) \/ ClearFails(w)
         \/ Move(w) \/ MoveFails(w) \/ Fetched(w)
         \/ ReadFolder(w) \/ Refresh(w) \/ Load(w) \/ Offer(w)
  PROVE  AloneAt(w)'
<1>1. CASE Crash(w)
  BY <1>1, AloneLeaves DEF Crash, Go
<1>2. CASE ClearFails(w)
  BY <1>2, AloneLeaves DEF ClearFails, Abort, Go
<1>3. CASE MoveFails(w)
  BY <1>3, AloneLeaves DEF MoveFails, Abort, Go
<1> QED BY <1>1, <1>2, <1>3, AloneChecks, AloneDownloads, AloneStages, AloneClears, AloneMoves,
           AloneFetched, AloneReads, AloneRefreshes, AloneLoads, AloneOffers

\* Only a boot changes who has the folder to itself.
LEMMA AloneStays ==
  ASSUME NEW w \in Workers,
         \/ Crash(w) \/ EnsurePacks(w)
         \/ Download(w) \/ StageFile(w) \/ Clear(w) \/ Cleared(w) \/ ClearFails(w)
         \/ Move(w) \/ MoveFails(w) \/ Fetched(w)
         \/ ReadFolder(w) \/ Refresh(w) \/ Load(w) \/ Offer(w)
  PROVE  alone' = alone
BY DEF Crash, EnsurePacks, Download, StageFile, Clear, Cleared, ClearFails, Abort,
       Move, MoveFails, Fetched, ReadFolder, Refresh, Load, Offer, EndWalk

\* AloneInv is kept by every step: by the worker's own, and because the others
\* are over until one of them begins, and then nobody has the folder alone but it.
LEMMA AloneStep == PacksInv /\ AloneInv /\ [Next]_vars => AloneInv'
<1> SUFFICES ASSUME PacksInv, AloneInv, [Next]_vars, NEW w \in Workers, alone'[w]
             PROVE  AloneAt(w)'
  BY DEF AloneInv
<1>1. PacksTypeOK /\ WholeInv
  BY DEF PacksInv
<1>2. CASE UNCHANGED vars
  <2>1. dir' = dir /\ at' = at /\ boot' = boot /\ staged' = staged /\ alone' = alone
    BY <1>2 DEF vars
  <2>2. AloneAt(w)
    BY <2>1 DEF AloneInv
  <2> QED BY <2>1, <2>2, FolderStays DEF AloneAt
<1>3. ASSUME NEW v \in Workers, Begin(v)
      PROVE  AloneAt(w)'
  <2>1. v = w
    BY <1>3 DEF Begin
  <2> QED BY <1>1, <1>3, <2>1, AloneBegins
<1>4. ASSUME NEW v \in Workers,
             \/ Crash(v) \/ EnsurePacks(v)
             \/ Download(v) \/ StageFile(v) \/ Clear(v) \/ Cleared(v) \/ ClearFails(v)
             \/ Move(v) \/ MoveFails(v) \/ Fetched(v)
             \/ ReadFolder(v) \/ Refresh(v) \/ Load(v) \/ Offer(v)
      PROVE  AloneAt(w)'
  <2>1. alone[w]
    BY <1>4, AloneStays
  <2>2. AloneAt(w)
    BY <2>1 DEF AloneInv
  <2>3. v = w
    BY <1>4, <2>1, <2>2, NobodyElse
  <2> QED BY <1>1, <1>4, <2>2, <2>3, AloneSteps
<1> QED BY <1>2, <1>3, <1>4 DEF Next

\* A worker that has the folder to itself comes up on all that is in it and on
\* all it fetched, and can call each; it is refused only with nothing there.
THEOREM PacksAloneServesAll == Spec => []AloneServesAll
<1>1. Init => AloneInv
  BY DEF Init, AloneInv
<1>2. AloneInv => AloneServesAll
  BY DEF AloneInv, AloneAt, AloneServesAll
<1> QED BY <1>1, <1>2, AloneStep, PacksInvariance, PTL DEF Spec

-----------------------------------------------------------------------------
(***************************************************************************)
(* What Forms promises, of any packs, any submission and any reply. First,  *)
(* lists of which no member comes twice.                                    *)
(***************************************************************************)

Once(s)      == \A i, j \in DOMAIN s : s[i] = s[j] => i = j

\* A path a list has twice says the same each time.
OneFieldAPath(s) == \A f, g \in ToSet(s) : f.path = g.path => f = g

\* What is kept of a list with no member twice has none twice.
LEMMA OnceKept ==
  ASSUME NEW T, NEW s \in Seq(T), NEW K
  PROVE  /\ Once(s) => Once(Keep(s, K))
         /\ ListedOnce(s) => ListedOnce(Keep(s, K))
<1> DEFINE t == Keep(s, K)
<1>1. t \in Seq(T)
  BY KeepPlaces
<1>2. PICK spot : PlacedAt(t, s, K, Len(s), spot)
  BY KeepPlaces
<1> HIDE DEF t
<1>3. \A i \in DOMAIN t : spot[i] \in DOMAIN s /\ t[i] = s[spot[i]] /\ spot[i] \in Nat
  BY <1>1, <1>2 DEF PlacedAt
<1>4. \A i, j \in DOMAIN t : spot[i] = spot[j] => i = j
  <2> SUFFICES ASSUME NEW i \in DOMAIN t, NEW j \in DOMAIN t, spot[i] = spot[j], i # j
               PROVE  FALSE
    OBVIOUS
  <2>1. spot[i] < spot[j] \/ spot[j] < spot[i]
    BY <1>1, <1>2 DEF PlacedAt
  <2> QED BY <1>3, <2>1
<1>5. (Once(s) => Once(t)) /\ (ListedOnce(s) => ListedOnce(t))
  BY <1>3, <1>4 DEF Once, ListedOnce
<1> QED BY <1>5 DEF t

\* Two lists that have no member in common, one after the other.
LEMMA OnceJoined ==
  ASSUME NEW T, NEW s \in Seq(T), NEW t \in Seq(T)
  PROVE  /\ s \o t \in Seq(T) /\ ToSet(s \o t) = ToSet(s) \cup ToSet(t)
         /\ Once(s) /\ Once(t) /\ ToSet(s) \cap ToSet(t) = {} => Once(s \o t)
<1> DEFINE u == s \o t
<1>1. /\ u \in Seq(T) /\ Len(u) = Len(s) + Len(t) /\ Len(s) \in Nat /\ Len(t) \in Nat
      /\ \A i \in 1 .. Len(s) : u[i] = s[i]
      /\ \A i \in 1 .. Len(t) : u[Len(s) + i] = t[i]
      /\ DOMAIN u = 1 .. Len(u) /\ DOMAIN s = 1 .. Len(s) /\ DOMAIN t = 1 .. Len(t)
  OBVIOUS
<1> HIDE DEF u
<1>2. \A i \in DOMAIN u : i \in DOMAIN s \/ (i - Len(s) \in DOMAIN t /\ i = Len(s) + (i - Len(s)))
  BY <1>1
<1>3. \A i \in DOMAIN t : Len(s) + i \in DOMAIN u
  BY <1>1
<1>4. \A i \in DOMAIN s : i \in DOMAIN u
  BY <1>1
<1>5. ToSet(u) = ToSet(s) \cup ToSet(t)
  <2>1. \A x \in ToSet(u) : x \in ToSet(s) \cup ToSet(t)
    BY <1>1, <1>2 DEF ToSet
  <2>2. \A x \in ToSet(s) : x \in ToSet(u)
    BY <1>1, <1>4 DEF ToSet
  <2>3. \A x \in ToSet(t) : x \in ToSet(u)
    BY <1>1, <1>3 DEF ToSet
  <2> QED BY <2>1, <2>2, <2>3
<1>6. ASSUME Once(s), Once(t), ToSet(s) \cap ToSet(t) = {},
             NEW i \in DOMAIN u, NEW j \in DOMAIN u, u[i] = u[j]
      PROVE  i = j
  <2>1. \A k \in DOMAIN s : u[k] = s[k] /\ s[k] \in ToSet(s)
    BY <1>1 DEF ToSet
  <2>2. \A k \in DOMAIN t : u[Len(s) + k] = t[k] /\ t[k] \in ToSet(t)
    BY <1>1 DEF ToSet
  <2>3. CASE i \in DOMAIN s /\ j \in DOMAIN s
    BY <1>6, <2>1, <2>3 DEF Once
  <2> DEFINE m == i - Len(s)
             n == j - Len(s)
  <2>4. CASE m \in DOMAIN t /\ i = Len(s) + m /\ n \in DOMAIN t /\ j = Len(s) + n
    <3>1. t[m] = t[n]
      BY <1>6, <2>2, <2>4
    <3>2. m = n
      BY <1>6, <2>4, <3>1 DEF Once
    <3> HIDE DEF m, n
    <3> QED BY <2>4, <3>2
  <2>5. CASE i \in DOMAIN s /\ n \in DOMAIN t /\ j = Len(s) + n
    BY <1>6, <2>1, <2>2, <2>5
  <2>6. CASE j \in DOMAIN s /\ m \in DOMAIN t /\ i = Len(s) + m
    BY <1>6, <2>1, <2>2, <2>6
  <2> QED BY <1>2, <2>3, <2>4, <2>5, <2>6
<1> QED BY <1>1, <1>5, <1>6 DEF u, Once

\* Such a list is as long as its members are many.
LEMMA OnceCounts ==
  ASSUME NEW T, NEW s \in Seq(T), Once(s)
  PROVE  IsFiniteSet(ToSet(s)) /\ Cardinality(ToSet(s)) = Len(s)
<1>1. Len(s) \in Nat /\ DOMAIN s = 1 .. Len(s) /\ s = [i \in 1 .. Len(s) |-> s[i]]
  OBVIOUS
<1>2. s \in Bijection(1 .. Len(s), ToSet(s))
  <2>1. s \in [1 .. Len(s) -> ToSet(s)] /\ IsInjective(s)
    BY <1>1 DEF ToSet, Once, IsInjective
  <2>2. \A x \in ToSet(s) : \E i \in 1 .. Len(s) : s[i] = x
    BY <1>1 DEF ToSet
  <2> QED BY <2>1, <2>2 DEF Bijection, Injection, Surjection
<1>3. IsFiniteSet(1 .. Len(s)) /\ Cardinality(1 .. Len(s)) = Len(s)
  <2>1. \A n \in Nat : IsFiniteSet(1 .. n) /\ Cardinality(1 .. n) = n
    <3> SUFFICES ASSUME NEW n \in Nat PROVE IsFiniteSet(1 .. n) /\ Cardinality(1 .. n) = n
      OBVIOUS
    <3>1. 1 \in Int /\ n \in Int
      OBVIOUS
    <3>2. IsFiniteSet(1 .. n) /\ Cardinality(1 .. n) = IF 1 > n THEN 0 ELSE n - 1 + 1
      BY <3>1, FS_Interval
    <3> QED BY <3>2
  <2> QED BY <1>1, <2>1
<1> HIDE DEF Once
<1> QED BY <1>2, <1>3, FS_Bijection DEF ExistsBijection

-----------------------------------------------------------------------------
\* What is sent.

SentValue == [name : Seq(STRING), value : Values]
SentUnder(name, values) == {i \in DOMAIN values : values[i].name = name}

\* How often a name is sent.
LEMMA SightingsAre ==
  ASSUME NEW values \in Seq(SentValue), NEW name
  PROVE  /\ Sightings(name, values) \in Nat
         /\ Sightings(name, values) = 0 <=> SentUnder(name, values) = {}
         /\ Sightings(name, values) = 1 => \E i : SentUnder(name, values) = {i}
<1>1. IsFiniteSet(1 .. Len(values))
  BY FS_Interval
<1>2. SentUnder(name, values) \in SUBSET (1 .. Len(values))
  BY DEF SentUnder
<1>3. IsFiniteSet(SentUnder(name, values))
  BY <1>1, <1>2, FS_Subset
<1> QED BY <1>3, FS_CardinalityType, FS_EmptySet, FS_Singleton DEF Sightings, SentUnder

\* The last value sent under a name was sent under it.
LEMMA LastSentIs ==
  ASSUME NEW values \in Seq(SentValue), NEW name
  PROVE  /\ SentUnder(name, values) = {} => LastSent(name, values) = None
         /\ SentUnder(name, values) # {} =>
              \E i \in SentUnder(name, values) : LastSent(name, values) = values[i].value
<1> DEFINE spot == {i \in DOMAIN values : values[i].name = name}
           last == CHOOSE i \in spot : \A j \in spot : j <= i
<1>1. spot # {} => last \in spot
  <2>1. spot \subseteq 0 .. Len(values) /\ Len(values) \in Nat
    OBVIOUS
  <2> HIDE DEF spot
  <2> QED BY <2>1, LargestOf
<1>2. LastSent(name, values) = IF spot = {} THEN None ELSE values[last].value
  BY DEF LastSent
<1> HIDE DEF last
<1> QED BY <1>1, <1>2 DEF SentUnder

\* The names are listed once each.
LEMMA FirstNamesAre ==
  ASSUME NEW values \in Seq(SentValue)
  PROVE  LET names == FirstNames(values)
         IN  /\ names \in Seq(Seq(STRING)) /\ Once(names)
             /\ \A n : n \in ToSet(names) <=> SentUnder(n, values) # {}
<1> DEFINE spot     == [i \in DOMAIN values |-> i]
           K      == {i \in DOMAIN values : \A j \in 1 .. i - 1 : values[j].name # values[i].name}
           firsts == Keep(spot, K)
           names  == [k \in DOMAIN firsts |-> values[firsts[k]].name]
<1>1. FirstNames(values) = names
  BY DEF FirstNames
<1>2. spot \in Seq(DOMAIN values) /\ Once(spot) /\ ToSet(spot) = DOMAIN values
  <2>1. Len(values) \in Nat /\ DOMAIN values = 1 .. Len(values)
    OBVIOUS
  <2>2. DOMAIN spot = 1 .. Len(values) /\ \A i \in DOMAIN values : spot[i] = i
    BY <2>1
  <2>3. spot \in Seq(DOMAIN values)
    BY <2>1
  <2> HIDE DEF spot
  <2>4. Once(spot)
    BY <2>1, <2>2 DEF Once
  <2>5. ToSet(spot) = DOMAIN values
    BY <2>1, <2>2 DEF ToSet
  <2> QED BY <2>3, <2>4, <2>5
<1>3. /\ firsts \in Seq(DOMAIN values) /\ Once(firsts)
      /\ \A i : i \in ToSet(firsts) <=> i \in DOMAIN values /\ i \in K
  <2> HIDE DEF spot, K
  <2> QED BY <1>2, KeepWhere, OnceKept
<1> HIDE DEF firsts
<1>4. \A k \in DOMAIN firsts : firsts[k] \in ToSet(firsts)
  BY DEF ToSet
<1>5. names \in Seq(Seq(STRING))
  <2>1. \A i \in DOMAIN values : values[i].name \in Seq(STRING)
    <3> SUFFICES ASSUME NEW i \in DOMAIN values PROVE values[i].name \in Seq(STRING)
      OBVIOUS
    <3>1. values[i] \in SentValue
      OBVIOUS
    <3> QED BY <3>1 DEF SentValue
  <2>2. \A k \in DOMAIN firsts : values[firsts[k]].name \in Seq(STRING)
    BY <1>3, <1>4, <2>1
  <2>3. DOMAIN firsts = 1 .. Len(firsts) /\ Len(firsts) \in Nat
    BY <1>3
  <2>4. DOMAIN names = 1 .. Len(firsts) /\ \A k \in DOMAIN names : names[k] \in Seq(STRING)
    BY <2>2, <2>3
  <2> QED BY <2>3, <2>4, <2>2
<1>6. \A i, j \in K : values[i].name = values[j].name => i = j
  <2> SUFFICES ASSUME NEW i \in K, NEW j \in K, values[i].name = values[j].name, i # j
               PROVE  FALSE
    OBVIOUS
  <2>1. i \in Nat \ {0} /\ j \in Nat \ {0}
    OBVIOUS
  <2>2. i \in 1 .. j - 1 \/ j \in 1 .. i - 1
    BY <2>1
  <2> QED BY <2>2
<1>7. Once(names)
  <2> SUFFICES ASSUME NEW k \in DOMAIN firsts, NEW l \in DOMAIN firsts, names[k] = names[l]
               PROVE  k = l
    BY DEF Once
  <2>1. firsts[k] \in K /\ firsts[l] \in K
    BY <1>3, <1>4
  <2>2. firsts[k] = firsts[l]
    BY <1>6, <2>1
  <2> QED BY <1>3, <2>2 DEF Once
<1>8. ASSUME NEW n \in ToSet(names) PROVE SentUnder(n, values) # {}
  <2>1. PICK k \in DOMAIN firsts : n = names[k]
    BY DEF ToSet
  <2>2. firsts[k] \in DOMAIN values
    BY <1>3, <1>4
  <2> QED BY <2>1, <2>2 DEF SentUnder
<1>9. ASSUME NEW n, SentUnder(n, values) # {} PROVE n \in ToSet(names)
  <2>1. PICK i \in SentUnder(n, values) : \A j \in SentUnder(n, values) : i <= j
    <3>1. SentUnder(n, values) \subseteq Nat
      BY DEF SentUnder
    <3> QED BY <1>9, <3>1, SmallestOf
  <2>2. i \in DOMAIN values /\ values[i].name = n
    BY DEF SentUnder
  <2>3. i \in K
    <3> SUFFICES ASSUME NEW j \in 1 .. i - 1, values[j].name = n PROVE FALSE
      BY <2>2
    <3>1. j \in DOMAIN values /\ j < i
      BY <2>2
    <3>2. j \in SentUnder(n, values)
      BY <3>1 DEF SentUnder
    <3> QED BY <2>1, <3>1, <3>2, <2>2
  <2>4. i \in ToSet(firsts)
    BY <1>3, <2>2, <2>3
  <2>5. PICK k \in DOMAIN firsts : firsts[k] = i
    BY <2>4 DEF ToSet
  <2>6. names[k] = n
    BY <2>2, <2>5
  <2> QED BY <2>5, <2>6 DEF ToSet
<1> QED BY <1>1, <1>5, <1>7, <1>8, <1>9

-----------------------------------------------------------------------------
\* What is handed back.

\* A form as the registry has it.
WellFormed(schema) ==
  /\ schema.mustSend \in Seq(PackField) /\ OneFieldAPath(schema.mustSend)
  /\ \A f \in ToSet(schema.mustSend) : Source(f) = "provider" => f.path \in ProviderPaths

\* The farmer's fields, each once where the pack lists it once.
LEMMA FarmersAre ==
  ASSUME NEW schema, WellFormed(schema)
  PROVE  /\ FarmerFields(schema) \in Seq(PackField)
         /\ ListedOnce(schema.mustSend) => ListedOnce(FarmerFields(schema))
         /\ \A f : f \in ToSet(FarmerFields(schema))
                     <=> f \in ToSet(schema.mustSend) /\ Source(f) = "farmer"
<1> DEFINE K == {f \in ToSet(schema.mustSend) : Source(f) = "farmer"}
<1>1. FarmerFields(schema) = Keep(schema.mustSend, K)
  BY DEF FarmerFields
<1>2. \A f : f \in ToSet(Keep(schema.mustSend, K))
               <=> f \in ToSet(schema.mustSend) /\ f \in K
  <2> HIDE DEF K
  <2> QED BY KeepWhere DEF WellFormed
<1>3. /\ Keep(schema.mustSend, K) \in Seq(PackField)
      /\ ListedOnce(schema.mustSend) => ListedOnce(Keep(schema.mustSend, K))
  <2> HIDE DEF K
  <2> QED BY KeepWhere, OnceKept DEF WellFormed
<1> QED BY <1>1, <1>2, <1>3

\* What a field is handed back with.
Codes == {"required", "pattern", "min_length", "max_length", "not_an_option",
          "duplicate", "unknown_field"}

\* What the rules a form has say a value may not be.
BreaksARule(field, v) ==
  \/ v \in Blank \/ v \notin field.finds
  \/ Length[v] \notin field.min .. field.max
  \/ field.allowed # <<>> /\ v \notin Options(field)

\* A value that was sent has a rule it breaks when it is one those rules say
\* it may not be, and a value that was not sent always has.
LEMMA BrokenIs ==
  ASSUME NEW field \in PackField
  PROVE  /\ Broken(field, None) # <<>>
         /\ \A v \in Values : Broken(field, v) # <<>> <=> BreaksARule(field, v)
         /\ \A v : Broken(field, v) # <<>> => Broken(field, v)[1] \in Codes
<1>1. \A x : <<x>> # <<>> /\ <<x>>[1] = x
  OBVIOUS
<1>2. field.min \in Nat /\ field.max \in Nat
  BY DEF PackField
<1>3. \A v \in Values : v # None /\ Length[v] \in Nat
  BY FormsAssumption DEF FormsAssumption
<1>4. \A v \in Values : Length[v] \notin field.min .. field.max
                          <=> Length[v] < field.min \/ Length[v] > field.max
  BY <1>2, <1>3
<1>5. \A v \in Values : Broken(field, v) # <<>> <=> BreaksARule(field, v)
  BY <1>1, <1>3, <1>4 DEF Broken, BreaksARule
<1>6. Broken(field, None) # <<>>
  BY <1>1 DEF Broken
<1>7. \A v : Broken(field, v) # <<>> => Broken(field, v)[1] \in Codes
  <2>1. \A v : Broken(field, v) \in {<<>>, <<"required">>, <<"pattern">>, <<"min_length">>,
                                     <<"max_length">>, <<"not_an_option">>}
    BY DEF Broken
  <2> SUFFICES ASSUME NEW v, Broken(field, v) # <<>> PROVE Broken(field, v)[1] \in Codes
    OBVIOUS
  <2>2. PICK c \in Codes : Broken(field, v) = <<c>>
    BY <2>1 DEF Codes
  <2> QED BY <1>1, <2>2
<1> QED BY <1>5, <1>6, <1>7

\* What is at fault, of any values.
FaultyIn(schema, name, values) ==
  LET sent   == {v.value : v \in {u \in ToSet(values) : u.name = name}}
      fields == {f \in ToSet(FarmerFields(schema)) : f.path = name}
  IN  \/ Sightings(name, values) # 1
      \/ fields = {}
      \/ \E f \in fields, v \in sent : BreaksARule(f, v)

\* A name sent once was sent with one value, the last.
LEMMA SentOnce ==
  ASSUME NEW values \in Seq(SentValue), NEW name, Sightings(name, values) = 1
  PROVE  /\ LastSent(name, values) \in Values
         /\ [name |-> name, value |-> LastSent(name, values)] \in ToSet(values)
         /\ {v.value : v \in {u \in ToSet(values) : u.name = name}} = {LastSent(name, values)}
<1>1. PICK i : SentUnder(name, values) = {i}
  BY SightingsAre
<1>2. /\ i \in DOMAIN values /\ values[i].name = name
      /\ \A j \in DOMAIN values : values[j].name = name => j = i
  BY <1>1 DEF SentUnder
<1>3. LastSent(name, values) = values[i].value
  BY <1>1, LastSentIs
<1>4. values[i] \in SentValue
  BY <1>2
<1>5. values[i].value \in Values /\ values[i] = [name |-> name, value |-> values[i].value]
  BY <1>2, <1>4 DEF SentValue
<1>6. values[i] \in ToSet(values)
  BY <1>2 DEF ToSet
<1>7. {u \in ToSet(values) : u.name = name} = {values[i]}
  BY <1>2, <1>6 DEF ToSet
<1> QED BY <1>3, <1>5, <1>6, <1>7

\* An error, and the names a list of them tells.
Names(errors) == [i \in DOMAIN errors |-> errors[i].name]
Error == [name : Seq(STRING), code : Codes]

\* A list of errors tells a name each.
LEMMA NamesAre ==
  ASSUME NEW errors \in Seq(Error)
  PROVE  Names(errors) \in Seq(Seq(STRING)) /\ Len(Names(errors)) = Len(errors)
<1>1. Len(errors) \in Nat /\ DOMAIN errors = 1 .. Len(errors)
  OBVIOUS
<1>2. \A i \in DOMAIN errors : errors[i].name \in Seq(STRING)
  <2> SUFFICES ASSUME NEW i \in DOMAIN errors PROVE errors[i].name \in Seq(STRING)
    OBVIOUS
  <2>1. errors[i] \in Error
    OBVIOUS
  <2> QED BY <2>1 DEF Error
<1> QED BY <1>1, <1>2 DEF Names

\* Two lists, one after the other, by position.
LEMMA JoinedAre ==
  ASSUME NEW T, NEW s \in Seq(T), NEW t \in Seq(T)
  PROVE  /\ s \o t \in Seq(T) /\ Len(s \o t) = Len(s) + Len(t)
         /\ \A i \in 1 .. Len(s \o t) :
              (s \o t)[i] = IF i <= Len(s) THEN s[i] ELSE t[i - Len(s)]
OBVIOUS

\* Two lists of errors tell the names of both, one after the other.
LEMMA NamesJoined ==
  ASSUME NEW s \in Seq(Error), NEW t \in Seq(Error)
  PROVE  s \o t \in Seq(Error) /\ Names(s \o t) = Names(s) \o Names(t)
<1> DEFINE u == s \o t
           n == Names(s) \o Names(t)
<1>1. /\ u \in Seq(Error) /\ Len(u) = Len(s) + Len(t) /\ Len(s) \in Nat /\ Len(t) \in Nat
      /\ \A i \in 1 .. Len(u) : u[i] = IF i <= Len(s) THEN s[i] ELSE t[i - Len(s)]
  OBVIOUS
<1>2. /\ Names(s) \in Seq(Seq(STRING)) /\ Len(Names(s)) = Len(s)
      /\ Names(t) \in Seq(Seq(STRING)) /\ Len(Names(t)) = Len(t)
      /\ Names(u) \in Seq(Seq(STRING)) /\ Len(Names(u)) = Len(u)
  BY <1>1, NamesAre
<1>3. /\ n \in Seq(Seq(STRING)) /\ Len(n) = Len(s) + Len(t)
      /\ \A i \in 1 .. Len(n) : n[i] = IF i <= Len(s) THEN Names(s)[i] ELSE Names(t)[i - Len(s)]
  <2> DEFINE a == Names(s)
             b == Names(t)
             T == Seq(STRING)
  <2>1. a \in Seq(T) /\ Len(a) = Len(s) /\ b \in Seq(T) /\ Len(b) = Len(t)
    BY <1>2
  <2>2. n = a \o b
    OBVIOUS
  <2> HIDE DEF a, b, n, T
  <2>3. /\ n \in Seq(T) /\ Len(n) = Len(s) + Len(t)
        /\ \A i \in 1 .. Len(n) : n[i] = IF i <= Len(s) THEN a[i] ELSE b[i - Len(s)]
    <3>1. /\ a \o b \in Seq(T) /\ Len(a \o b) = Len(a) + Len(b)
          /\ \A i \in 1 .. Len(a \o b) :
               (a \o b)[i] = IF i <= Len(a) THEN a[i] ELSE b[i - Len(a)]
      BY <2>1, JoinedAre
    <3> QED BY <2>1, <2>2, <3>1
  <2> QED BY <2>3 DEF a, b, T
<1> HIDE DEF u, n
<1>4. \A i \in 1 .. Len(u) : Names(u)[i] = n[i]
  <2> SUFFICES ASSUME NEW i \in 1 .. Len(u) PROVE Names(u)[i] = n[i]
    OBVIOUS
  <2>1. Names(u)[i] = u[i].name
    BY <1>1 DEF Names
  <2>2. CASE i <= Len(s)
    <3>1. i \in DOMAIN s
      BY <1>1, <2>2
    <3>2. Names(s)[i] = s[i].name
      BY <3>1 DEF Names
    <3> QED BY <1>1, <1>3, <2>1, <2>2, <3>2
  <2>3. CASE ~(i <= Len(s))
    <3>1. i - Len(s) \in DOMAIN t
      BY <1>1, <2>3
    <3>2. Names(t)[i - Len(s)] = t[i - Len(s)].name
      BY <3>1 DEF Names
    <3> QED BY <1>1, <1>3, <2>1, <2>3, <3>2
  <2> QED BY <2>2, <2>3
<1>5. Names(u) = n
  BY <1>1, <1>2, <1>3, <1>4
<1> QED BY <1>1, <1>5 DEF u, n

\* The errors made of names tell those names.
LEMMA ErrorsAre ==
  ASSUME NEW names \in Seq(Seq(STRING)), NEW code \in Codes
  PROVE  Errors(names, code) \in Seq(Error) /\ Names(Errors(names, code)) = names
<1>1. Len(names) \in Nat /\ DOMAIN names = 1 .. Len(names)
      /\ names = [i \in 1 .. Len(names) |-> names[i]]
  OBVIOUS
<1>2. \A i \in DOMAIN names : [name |-> names[i], code |-> code] \in Error
  BY DEF Error
<1>3. Errors(names, code) \in Seq(Error) /\ DOMAIN Errors(names, code) = 1 .. Len(names)
  BY <1>1, <1>2 DEF Errors
<1>4. \A i \in 1 .. Len(names) : Errors(names, code)[i].name = names[i]
  BY <1>1 DEF Errors
<1>5. Names(Errors(names, code)) = [i \in 1 .. Len(names) |-> names[i]]
  BY <1>3, <1>4 DEF Names
<1> QED BY <1>1, <1>3, <1>5

\* Every name that is at fault is handed back and no other, once each where each
\* field is listed once.
LEMMA ToldAre ==
  ASSUME NEW schema, WellFormed(schema), NEW values \in Seq(SentValue)
  PROVE  LET told == Names(FieldErrors(schema, values))
         IN  /\ told \in Seq(Seq(STRING))
             /\ ListedOnce(schema.mustSend) => Once(told)
             /\ Len(told) = Len(FieldErrors(schema, values))
             /\ \A n : n \in ToSet(told) <=>
                  /\ \/ \E f \in ToSet(FarmerFields(schema)) : f.path = n
                     \/ \E v \in ToSet(values) : v.name = n
                  /\ FaultyIn(schema, n, values)
<1> DEFINE fields  == FarmerFields(schema)
           twice   == SentTwice(values)
           names   == FirstNames(values)
           onForm  == {f.path : f \in ToSet(fields)}
           Rules(f) == Broken(f, LastSent(f.path, values))
           W       == {f \in ToSet(fields) : f.path \notin twice /\ Rules(f) # <<>>}
           wrong   == Keep(fields, W)
           others  == ToSet(names) \ (twice \cup onForm)
           E1      == [i \in DOMAIN wrong |-> [name |-> wrong[i].path, code |-> Rules(wrong[i])[1]]]
           E2      == Errors(Keep(names, twice), "duplicate")
           E3      == Errors(Keep(names, others), "unknown_field")
<1>1. FieldErrors(schema, values) = E1 \o E2 \o E3
  BY DEF FieldErrors
<1>2. fields \in Seq(PackField) /\ (ListedOnce(schema.mustSend) => ListedOnce(fields))
  BY FarmersAre
<1>3. /\ wrong \in Seq(PackField) /\ (ListedOnce(schema.mustSend) => ListedOnce(wrong))
      /\ \A f : f \in ToSet(wrong) <=> f \in ToSet(fields) /\ f \in W
  <2> HIDE DEF fields, W
  <2> QED BY <1>2, KeepWhere, OnceKept
<1>4. /\ names \in Seq(Seq(STRING)) /\ Once(names)
      /\ \A n : n \in ToSet(names) <=> SentUnder(n, values) # {}
  BY FirstNamesAre
<1>5. /\ Keep(names, twice) \in Seq(Seq(STRING)) /\ Once(Keep(names, twice))
      /\ \A n : n \in ToSet(Keep(names, twice)) <=> n \in ToSet(names) /\ n \in twice
  <2> HIDE DEF names, twice
  <2> QED BY <1>4, KeepWhere, OnceKept
<1>6. /\ Keep(names, others) \in Seq(Seq(STRING)) /\ Once(Keep(names, others))
      /\ \A n : n \in ToSet(Keep(names, others)) <=> n \in ToSet(names) /\ n \in others
  <2> HIDE DEF names, others
  <2> QED BY <1>4, KeepWhere, OnceKept
<1> DEFINE N1 == [i \in DOMAIN wrong |-> wrong[i].path]
           N2 == Keep(names, twice)
           N3 == Keep(names, others)
<1>7. \A f \in ToSet(wrong) : f \in PackField /\ f.path \in Seq(STRING) /\ Rules(f) # <<>>
  <2> SUFFICES ASSUME NEW f \in ToSet(wrong)
               PROVE  f \in PackField /\ f.path \in Seq(STRING) /\ Rules(f) # <<>>
    OBVIOUS
  <2>1. f \in PackField
    BY <1>3 DEF ToSet
  <2>2. f.path \in Seq(STRING)
    BY <2>1 DEF PackField
  <2> QED BY <1>3, <2>1, <2>2
<1>8. \A f \in ToSet(wrong) : Rules(f)[1] \in Codes
  <2> HIDE DEF wrong
  <2> QED BY <1>7, BrokenIs
<1> HIDE DEF wrong, N2, N3
<1>9. /\ DOMAIN wrong = 1 .. Len(wrong) /\ Len(wrong) \in Nat
      /\ \A i \in DOMAIN wrong : wrong[i] \in ToSet(wrong)
  BY <1>3 DEF ToSet
<1>10. E1 \in Seq(Error) /\ Names(E1) = N1
  <2> HIDE DEF Rules
  <2>1. \A i \in DOMAIN wrong : E1[i] \in Error /\ E1[i].name = wrong[i].path
    BY <1>7, <1>8, <1>9 DEF Error
  <2>2. DOMAIN E1 = 1 .. Len(wrong)
    BY <1>9
  <2>3. E1 \in Seq(Error)
    BY <1>9, <2>1, <2>2
  <2> HIDE DEF E1
  <2> QED BY <1>9, <2>1, <2>2, <2>3 DEF Names
<1>11. E2 \in Seq(Error) /\ Names(E2) = N2 /\ E3 \in Seq(Error) /\ Names(E3) = N3
  <2>1. N2 \in Seq(Seq(STRING)) /\ N3 \in Seq(Seq(STRING))
    BY <1>5, <1>6 DEF N2, N3
  <2>2. E2 = Errors(N2, "duplicate") /\ E3 = Errors(N3, "unknown_field")
    BY DEF N2, N3
  <2>3. "duplicate" \in Codes /\ "unknown_field" \in Codes
    BY DEF Codes
  <2> HIDE DEF E2, E3
  <2> QED BY <2>1, <2>2, <2>3, ErrorsAre
<1>12. N1 \in Seq(Seq(STRING)) /\ (ListedOnce(schema.mustSend) => Once(N1))
      /\ \A n : n \in ToSet(N1) <=> \E f \in ToSet(wrong) : f.path = n
  <2>1. \A i \in DOMAIN wrong : wrong[i].path \in Seq(STRING)
    BY <1>7, <1>9
  <2>2. N1 \in Seq(Seq(STRING))
    BY <1>9, <2>1
  <2>3. ListedOnce(schema.mustSend) => Once(N1)
    BY <1>3 DEF Once, ListedOnce
  <2>4. \A n : n \in ToSet(N1) <=> \E f \in ToSet(wrong) : f.path = n
    BY DEF ToSet
  <2> QED BY <2>2, <2>3, <2>4
<1>13. N2 \in Seq(Seq(STRING)) /\ Once(N2) /\ N3 \in Seq(Seq(STRING)) /\ Once(N3)
  BY <1>5, <1>6 DEF N2, N3
<1> HIDE DEF N1, E1, E2, E3
<1>14. Names(E1 \o E2 \o E3) = N1 \o N2 \o N3 /\ E1 \o E2 \o E3 \in Seq(Error)
  <2>1. E1 \o E2 \in Seq(Error) /\ Names(E1 \o E2) = N1 \o N2
    BY <1>10, <1>11, NamesJoined
  <2> QED BY <1>11, <2>1, NamesJoined
<1>15. \A n : n \in ToSet(N1) <=> /\ \E f \in ToSet(fields) : f.path = n /\ Rules(f) # <<>>
                                 /\ n \notin twice
  BY <1>3, <1>12
<1>16. \A n : n \in ToSet(N2) <=> n \in ToSet(names) /\ n \in twice
  BY <1>5 DEF N2
<1>17. \A n : n \in ToSet(N3) <=> n \in ToSet(names) /\ n \notin twice /\ n \notin onForm
  BY <1>6 DEF N3
<1>18. \A n \in ToSet(N1) : n \in onForm
  BY <1>15
<1> HIDE DEF Rules
<1>19. ToSet(N1) \cap ToSet(N2) = {} /\ (ToSet(N1) \cup ToSet(N2)) \cap ToSet(N3) = {}
  BY <1>15, <1>16, <1>17, <1>18
<1>20. /\ N1 \o N2 \o N3 \in Seq(Seq(STRING))
       /\ ListedOnce(schema.mustSend) => Once(N1 \o N2 \o N3)
       /\ ToSet(N1 \o N2 \o N3) = ToSet(N1) \cup ToSet(N2) \cup ToSet(N3)
  <2>1. /\ N1 \o N2 \in Seq(Seq(STRING)) /\ (ListedOnce(schema.mustSend) => Once(N1 \o N2))
        /\ ToSet(N1 \o N2) = ToSet(N1) \cup ToSet(N2)
    BY <1>12, <1>13, <1>19, OnceJoined
  <2> DEFINE M == N1 \o N2
  <2>2. /\ M \in Seq(Seq(STRING)) /\ (ListedOnce(schema.mustSend) => Once(M))
        /\ ToSet(M) \cap ToSet(N3) = {}
    BY <1>19, <2>1
  <2> HIDE DEF M
  <2>3. /\ M \o N3 \in Seq(Seq(STRING)) /\ (ListedOnce(schema.mustSend) => Once(M \o N3))
        /\ ToSet(M \o N3) = ToSet(M) \cup ToSet(N3)
    BY <1>13, <2>2, OnceJoined
  <2> QED BY <2>1, <2>3 DEF M
<1>21. \A n : n \in twice <=> Sightings(n, values) > 1
  <2>1. \A n : n \in twice <=> Sightings(n, values) > 1 /\ \E v \in ToSet(values) : v.name = n
    BY DEF SentTwice
  <2>2. \A n : SentUnder(n, values) # {} <=> \E v \in ToSet(values) : v.name = n
    BY DEF SentUnder, ToSet
  <2>3. \A n : Sightings(n, values) > 1 => SentUnder(n, values) # {}
    BY SightingsAre
  <2> QED BY <2>1, <2>2, <2>3
<1>22. \A n : n \in ToSet(names) <=> \E v \in ToSet(values) : v.name = n
  BY <1>4 DEF SentUnder, ToSet
<1>23. ASSUME NEW n
       PROVE  n \in ToSet(N1) \cup ToSet(N2) \cup ToSet(N3) <=>
                /\ n \in onForm \/ n \in ToSet(names)
                /\ FaultyIn(schema, n, values)
  <2> HIDE DEF names, twice
  <2>0. Sightings(n, values) \in Nat /\ (Sightings(n, values) = 0 <=> n \notin ToSet(names))
    BY <1>4, SightingsAre
  <2>1. CASE Sightings(n, values) = 0
    <3>1. n \notin twice /\ n \notin ToSet(names) /\ LastSent(n, values) = None
      BY <1>4, <1>21, <2>0, <2>1, LastSentIs
    <3>2. \A f \in ToSet(fields) : f.path = n => Rules(f) # <<>>
      <4>1. \A f \in ToSet(fields) : f \in PackField
        BY <1>2 DEF ToSet
      <4> QED BY <3>1, <4>1, BrokenIs DEF Rules
    <3>3. FaultyIn(schema, n, values)
      BY <2>1 DEF FaultyIn
    <3> QED BY <1>15, <1>16, <1>17, <3>1, <3>2, <3>3
  <2>2. CASE Sightings(n, values) > 1
    <3>1. n \in twice /\ n \in ToSet(names)
      BY <1>21, <2>0, <2>2
    <3>2. FaultyIn(schema, n, values)
      BY <2>0, <2>2 DEF FaultyIn
    <3> QED BY <1>16, <3>1, <3>2
  <2>3. CASE Sightings(n, values) = 1
    <3>1. n \notin twice /\ n \in ToSet(names)
      BY <1>21, <2>0, <2>3
    <3> DEFINE last == LastSent(n, values)
    <3>2. /\ last \in Values
          /\ {v.value : v \in {u \in ToSet(values) : u.name = n}} = {last}
      BY <2>3, SentOnce
    <3> HIDE DEF last
    <3>3. FaultyIn(schema, n, values) <=>
            \/ n \notin onForm
            \/ \E f \in ToSet(fields) : f.path = n /\ BreaksARule(f, last)
      BY <2>3, <3>2 DEF FaultyIn
    <3>4. \A f \in ToSet(fields) : f.path = n => (Rules(f) # <<>> <=> BreaksARule(f, last))
      <4>1. \A f \in ToSet(fields) : f \in PackField
        BY <1>2 DEF ToSet
      <4> QED BY <3>2, <4>1, BrokenIs DEF Rules, last
    <3> QED BY <1>15, <1>16, <1>17, <3>1, <3>3, <3>4
  <2> QED BY <2>0, <2>1, <2>2, <2>3
<1> DEFINE told == N1 \o N2 \o N3
<1>24. \A n : n \in ToSet(told) <=>
         /\ \/ \E f \in ToSet(fields) : f.path = n
            \/ \E v \in ToSet(values) : v.name = n
         /\ FaultyIn(schema, n, values)
  BY <1>20, <1>22, <1>23
<1>25. Names(FieldErrors(schema, values)) = told /\ Len(told) = Len(FieldErrors(schema, values))
  BY <1>1, <1>14, NamesAre
<1> HIDE DEF told
<1> QED BY <1>20, <1>24, <1>25 DEF told

-----------------------------------------------------------------------------
\* The registry.

\* Of the schemas there are, each context that is not challenged has the first.
LEMMA ServableIs ==
  ASSUME NEW T, NEW schemas \in Seq(T)
  PROVE  /\ Servable(schemas) \subseteq ToSet(schemas)
         /\ \A c : (\E s \in Servable(schemas) : s.context = c) <=>
                     /\ \E s \in ToSet(schemas) : s.context = c
                     /\ <<c.scheme, c.category>> \notin Challenged(schemas)
         /\ \A s, t \in Servable(schemas) : s.context = t.context => s = t
<1> DEFINE K      == {s \in ToSet(schemas) :
                        <<s.context.scheme, s.context.category>> \notin Challenged(schemas)}
           open   == Keep(schemas, K)
           firsts == {i \in DOMAIN open : \A j \in 1 .. i - 1 : open[j].context # open[i].context}
<1>1. Servable(schemas) = {open[i] : i \in firsts}
  BY DEF Servable
<1>2. /\ open \in Seq(T)
      /\ \A s : s \in ToSet(open) <=> s \in ToSet(schemas) /\ s \in K
  <2> HIDE DEF K
  <2> QED BY KeepWhere
<1> HIDE DEF open
<1>3. DOMAIN open = 1 .. Len(open) /\ Len(open) \in Nat
  BY <1>2
<1>4. \A i, j \in firsts : open[i].context = open[j].context => i = j
  <2> SUFFICES ASSUME NEW i \in firsts, NEW j \in firsts,
                      open[i].context = open[j].context, i # j
               PROVE  FALSE
    OBVIOUS
  <2>1. i \in Nat \ {0} /\ j \in Nat \ {0}
    BY <1>3
  <2>2. i \in 1 .. j - 1 \/ j \in 1 .. i - 1
    BY <2>1
  <2> QED BY <2>2
<1>5. ASSUME NEW s \in ToSet(open) PROVE \E i \in firsts : open[i].context = s.context
  <2> DEFINE spot == {i \in DOMAIN open : open[i].context = s.context}
  <2>1. spot # {} /\ spot \subseteq Nat
    BY <1>3 DEF ToSet
  <2>2. PICK i \in spot : \A j \in spot : i <= j
    <3> HIDE DEF spot
    <3> QED BY <2>1, SmallestOf
  <2>3. \A j \in 1 .. i - 1 : j \in DOMAIN open /\ ~(i <= j)
    BY <1>3, <2>2
  <2>4. i \in firsts
    BY <2>2, <2>3
  <2> QED BY <2>2, <2>4
<1>6. \A i \in firsts : open[i] \in ToSet(open)
  BY DEF ToSet
<1>7. \A s \in Servable(schemas) : s \in ToSet(open)
  BY <1>1, <1>6
<1>8. \A c : (\E s \in Servable(schemas) : s.context = c)
               <=> \E s \in ToSet(open) : s.context = c
  <2> HIDE DEF firsts
  <2> QED BY <1>1, <1>5, <1>6
<1>9. \A s, t \in Servable(schemas) : s.context = t.context => s = t
  <2> HIDE DEF firsts
  <2> QED BY <1>1, <1>4
<1> QED BY <1>2, <1>7, <1>8, <1>9

\* A form of the registry, before it is known to be well-formed.
FormContext == [scheme : STRING, category : STRING, action : STRING]
FormSchema  == [context : FormContext, mustSend : Seq(PackField)]

\* The schemas of a pack are well-formed, and a pack that cannot be read has none.
LEMMA SchemasAre ==
  ASSUME NEW packs \in Folders, NEW i \in DOMAIN packs
  PROVE  /\ SchemasOf(packs[i]) \in Seq(FormSchema)
         /\ \A s \in ToSet(SchemasOf(packs[i])) : WellFormed(s)
         /\ ~(packs[i].kind = "api" /\ ~Skipped(packs[i])) => SchemasOf(packs[i]) = <<>>
<1> DEFINE pack   == packs[i]
           leaves == CalledLeaves(pack)
           schema(k) == [context  |-> [scheme |-> leaves[k].scheme[1], category |-> pack.category,
                                       action |-> leaves[k].action],
                         mustSend |-> Declared(leaves[k])]
           all    == [k \in DOMAIN leaves |-> schema(k)]
<1>1. packs \in Seq(FormPack) /\ i \in DOMAIN packs
  BY FormsAssumption DEF FormsAssumption
<1>2. pack \in FormPack
  BY <1>1
<1>3. /\ pack.leaves \in Seq(Leaf) /\ pack.category \in STRING
      /\ pack.kind \in {"api", "catalog"}
  BY <1>2 DEF FormPack
<1>4. SchemasOf(pack) = IF pack.kind = "catalog" \/ Skipped(pack) THEN <<>> ELSE all
  BY DEF SchemasOf
<1>5. \A j \in DOMAIN pack.leaves : OneFieldAPath(pack.leaves[j].fields)
  <2> SUFFICES ASSUME NEW j \in DOMAIN pack.leaves PROVE OneFieldAPath(pack.leaves[j].fields)
    OBVIOUS
  <2> DEFINE fields == pack.leaves[j].fields
  <2>1. \A f, g \in DOMAIN fields : fields[f].path = fields[g].path => fields[f] = fields[g]
    BY FormsAssumption, <1>1 DEF FormsAssumption
  <2> HIDE DEF fields
  <2> QED BY <2>1 DEF OneFieldAPath, ToSet, fields
<1>6. /\ leaves \in Seq(Leaf)
      /\ \A l : l \in ToSet(leaves) => l \in ToSet(pack.leaves)
  <2> HIDE DEF pack
  <2> QED BY <1>3, KeepWhere DEF CalledLeaves
<1> HIDE DEF leaves
<1>7. ASSUME NEW k \in DOMAIN leaves
      PROVE  /\ leaves[k] \in Leaf
             /\ Declared(leaves[k]) \in Seq(PackField) /\ OneFieldAPath(Declared(leaves[k]))
  <2>1. leaves[k] \in Leaf
    BY <1>6
  <2>2. leaves[k].fields \in Seq(PackField)
    BY <2>1 DEF Leaf
  <2>3. leaves[k] \in ToSet(leaves)
    BY DEF ToSet
  <2>4. PICK j \in DOMAIN pack.leaves : leaves[k] = pack.leaves[j]
    BY <1>6, <2>3 DEF ToSet
  <2>5. OneFieldAPath(leaves[k].fields)
    BY <1>5, <2>4
  <2> DEFINE fields == leaves[k].fields
             K      == {f \in ToSet(fields) : f.declared}
  <2>6. Declared(leaves[k]) = Keep(fields, K)
    BY DEF Declared
  <2> HIDE DEF fields, K
  <2>7. /\ Keep(fields, K) \in Seq(PackField)
        /\ \A f \in ToSet(Keep(fields, K)) : f \in ToSet(fields)
    BY <2>2, KeepWhere DEF fields
  <2> QED BY <2>1, <2>5, <2>6, <2>7 DEF fields, OneFieldAPath
<1>8. CASE pack.kind = "api" /\ ~Skipped(pack)
  <2>1. \A l \in ToSet(leaves) :
          /\ Len(l.scheme) = 1
          /\ \A f \in ToSet(Declared(l)) : Source(f) = "provider" => f.path \in ProviderPaths
    BY <1>8 DEF Skipped, Reads, leaves
  <2>2. ASSUME NEW k \in DOMAIN leaves PROVE schema(k) \in FormSchema /\ WellFormed(schema(k))
    <3>1. leaves[k] \in ToSet(leaves)
      BY DEF ToSet
    <3>2. leaves[k].scheme \in Seq(STRING) /\ leaves[k].action \in STRING
      BY <1>7 DEF Leaf
    <3>3. leaves[k].scheme[1] \in STRING
      BY <2>1, <3>1, <3>2
    <3>4. schema(k).context \in FormContext
      BY <1>3, <3>2, <3>3 DEF FormContext
    <3> QED BY <1>7, <2>1, <3>1, <3>4 DEF FormSchema, WellFormed
  <2> HIDE DEF schema
  <2>3. all \in Seq(FormSchema)
    BY <1>6, <2>2
  <2>4. \A s \in ToSet(all) : \E k \in DOMAIN leaves : s = schema(k)
    BY DEF ToSet
  <2> HIDE DEF all
  <2>5. SchemasOf(pack) = all
    BY <1>4, <1>8
  <2> QED BY <1>8, <2>2, <2>3, <2>4, <2>5
<1>9. CASE ~(pack.kind = "api" /\ ~Skipped(pack))
  <2>1. SchemasOf(pack) = <<>>
    BY <1>3, <1>4, <1>9
  <2>2. ToSet(<<>>) = {}
    BY DEF ToSet
  <2> QED BY <2>1, <2>2
<1> QED BY <1>8, <1>9

\* The registry that is built of a folder.
RegistryOf(packs) == Servable(FlattenSeq([i \in DOMAIN packs |-> SchemasOf(packs[i])]))

\* It serves, once each, the contexts of the packs that can be read but those
\* a challenge withdraws, and each form is well-formed.
LEMMA RegistryIs ==
  ASSUME NEW packs \in Folders
  PROVE  LET readable == {p \in ToSet(packs) : p.kind = "api" /\ ~Skipped(p)}
             contexts == UNION {{s.context : s \in ToSet(SchemasOf(p))} : p \in readable}
             stopped  == {c \in contexts : \E d \in contexts :
                            d.action = "init" /\ d.scheme = c.scheme /\ d.category = c.category}
         IN  /\ {s.context : s \in RegistryOf(packs)} = contexts \ stopped
             /\ \A s, t \in RegistryOf(packs) : s.context = t.context => s = t
             /\ \A s \in RegistryOf(packs) : WellFormed(s)
<1> DEFINE readable == {p \in ToSet(packs) : p.kind = "api" /\ ~Skipped(p)}
           contexts == UNION {{s.context : s \in ToSet(SchemasOf(p))} : p \in readable}
           stopped  == {c \in contexts : \E d \in contexts :
                          d.action = "init" /\ d.scheme = c.scheme /\ d.category = c.category}
           lists    == [i \in DOMAIN packs |-> SchemasOf(packs[i])]
           schemas  == FlattenSeq(lists)
<1>1. packs \in Seq(FormPack) /\ DOMAIN packs = 1 .. Len(packs) /\ Len(packs) \in Nat
  BY FormsAssumption DEF FormsAssumption
<1>2. lists \in Seq(Seq(FormSchema))
  BY <1>1, SchemasAre
<1>3. /\ schemas \in Seq(FormSchema)
      /\ \A s : s \in ToSet(schemas) <=> \E i \in DOMAIN packs : s \in ToSet(SchemasOf(packs[i]))
  <2>1. \A s : s \in ToSet(schemas) <=> \E i \in DOMAIN lists : s \in ToSet(lists[i])
    <3> HIDE DEF lists
    <3> QED BY <1>2, FlattenWhere
  <2>2. schemas \in Seq(FormSchema)
    <3> HIDE DEF lists
    <3> QED BY <1>2, FlattenWhere
  <2>3. DOMAIN lists = DOMAIN packs /\ \A i \in DOMAIN packs : lists[i] = SchemasOf(packs[i])
    OBVIOUS
  <2> HIDE DEF lists, schemas
  <2> QED BY <2>1, <2>2, <2>3
<1> HIDE DEF schemas, lists
<1>4. \A c : c \in contexts <=> \E s \in ToSet(schemas) : s.context = c
  <2>1. ASSUME NEW c \in contexts PROVE \E s \in ToSet(schemas) : s.context = c
    <3>1. PICK p \in readable : \E s \in ToSet(SchemasOf(p)) : s.context = c
      OBVIOUS
    <3>2. PICK i \in DOMAIN packs : p = packs[i]
      BY DEF ToSet
    <3> QED BY <1>3, <3>1, <3>2
  <2>2. ASSUME NEW s \in ToSet(schemas) PROVE s.context \in contexts
    <3>1. PICK i \in DOMAIN packs : s \in ToSet(SchemasOf(packs[i]))
      BY <1>3
    <3>2. packs[i] \in readable
      <4>1. SchemasOf(packs[i]) # <<>>
        <5>1. ToSet(<<>>) = {}
          BY DEF ToSet
        <5> QED BY <3>1, <5>1
      <4>2. packs[i] \in ToSet(packs)
        BY DEF ToSet
      <4> QED BY <4>1, <4>2, SchemasAre
    <3> QED BY <3>1, <3>2
  <2> QED BY <2>1, <2>2
<1> HIDE DEF contexts
<1>5. \A c : <<c.scheme, c.category>> \in Challenged(schemas) <=>
               \E d \in contexts : d.action = "init" /\ d.scheme = c.scheme /\ d.category = c.category
  <2>1. \A c : <<c.scheme, c.category>> \in Challenged(schemas) <=>
               \E s \in ToSet(schemas) : /\ s.context.action = "init"
                                         /\ s.context.scheme = c.scheme
                                         /\ s.context.category = c.category
    BY DEF Challenged
  <2>2. \A s \in ToSet(schemas) : s.context \in contexts
    BY <1>4
  <2>3. \A d \in contexts : \E s \in ToSet(schemas) : s.context = d
    BY <1>4
  <2> SUFFICES ASSUME NEW c
               PROVE  (\E s \in ToSet(schemas) : /\ s.context.action = "init"
                                                 /\ s.context.scheme = c.scheme
                                                 /\ s.context.category = c.category)
                      <=> \E d \in contexts : d.action = "init" /\ d.scheme = c.scheme
                                              /\ d.category = c.category
    BY <2>1
  <2> QED BY <2>2, <2>3
<1>6. /\ RegistryOf(packs) \subseteq ToSet(schemas)
      /\ \A c : (\E s \in RegistryOf(packs) : s.context = c) <=>
                  /\ \E s \in ToSet(schemas) : s.context = c
                  /\ <<c.scheme, c.category>> \notin Challenged(schemas)
      /\ \A s, t \in RegistryOf(packs) : s.context = t.context => s = t
  <2>1. RegistryOf(packs) = Servable(schemas)
    BY DEF RegistryOf, schemas, lists
  <2> QED BY <1>3, <2>1, ServableIs
<1>7. {s.context : s \in RegistryOf(packs)} = contexts \ stopped
  <2>1. \A c : c \in {s.context : s \in RegistryOf(packs)}
                 <=> \E s \in RegistryOf(packs) : s.context = c
    OBVIOUS
  <2>2. \A c : c \in contexts \ stopped <=>
                 c \in contexts /\ <<c.scheme, c.category>> \notin Challenged(schemas)
    BY <1>5
  <2> QED BY <1>4, <1>6, <2>1, <2>2
<1>8. \A s \in RegistryOf(packs) : WellFormed(s)
  BY <1>3, <1>6, SchemasAre
<1> QED BY <1>6, <1>7, <1>8 DEF contexts

-----------------------------------------------------------------------------
\* A form, from the folder to what is kept of the desk's reply.

\* What is sent where, of a form: the body of the call to a desk.
BodyOf(schema, provider, values) ==
  [path \in Outer(PathsOf(schema)) |->
     ValueFor(CHOOSE f \in ToSet(schema.mustSend) : f.path = path, provider, values)]

\* The verdict is the one the form gives of what was sent.
CheckedInv ==
  \A schema \in ServedBy(submission.context) :
    LET errors == FieldErrors(schema, submission.values)
    IN  checked = [verdict |-> IF errors = <<>> THEN "valid" ELSE "errors",
                   errors  |-> errors,
                   prose   |-> FreeText(schema, submission.values)]

\* What is filed was found in order, and goes to a desk of its scheme; it is not
\* filed where a path cannot be set.
FiledInv ==
  /\ checked.verdict = "valid" /\ desk.scheme = submission.context.scheme
  /\ \E schema \in ServedBy(submission.context) :
       \/ body = None /\ UnderAValue(schema.mustSend)
       \/ body = BodyOf(schema, desk, submission.values)

\* What is kept is of a reply a desk gave.
KeptInv ==
  \E schema \in ServedBy(submission.context) :
    reply \in Replies /\ kept = Without(reply, FarmerFields(schema))

\* What each step leaves is made of what the steps before it left.
FormsInv ==
  /\ folder \in Folders /\ submission \in Submissions
  /\ registry # None => registry = RegistryOf(folder)
  /\ checked # None => registry # None /\ CheckedInv
  /\ body # None => desk # None
  /\ desk # None => checked # None /\ FiledInv
  /\ kept # None => registry # None /\ KeptInv

\* One form serves a context.
LEMMA OneForm ==
  ASSUME FormsInv, registry # None, NEW context
  PROVE  /\ \A s, t \in ServedBy(context) : s = t
         /\ \A s \in ServedBy(context) : WellFormed(s)
BY RegistryIs DEF FormsInv, ServedBy

\* The verdict, the body and what is kept are made of the folder's registry, the
\* submission and the reply, by the form that serves the submission's context
\* (core/forms).
THEOREM FormsInvariance == FormsSpec => []FormsInv
<1>1. FormsInit => FormsInv
  BY DEF FormsInit, FormsInv
<1>2. FormsInv /\ [FormsNext]_fvars => FormsInv'
  <2> SUFFICES ASSUME FormsInv, [FormsNext]_fvars PROVE FormsInv'
    OBVIOUS
  <2>1. CASE BuildRegistry
    <3>1. /\ registry = None /\ registry' = RegistryOf(folder)
          /\ folder' = folder /\ submission' = submission /\ checked' = checked
          /\ desk' = desk /\ body' = body /\ kept' = kept
      BY <2>1 DEF BuildRegistry, RegistryOf
    <3>2. checked = None /\ desk = None /\ body = None /\ kept = None
      BY <3>1 DEF FormsInv
    <3> QED BY <3>1, <3>2 DEF FormsInv
  <2>2. CASE ValidateSubmission
    <3>1. /\ registry # None /\ checked = None
          /\ registry' = registry /\ folder' = folder /\ submission' = submission
          /\ desk' = desk /\ body' = body /\ reply' = reply /\ kept' = kept
      BY <2>2 DEF ValidateSubmission
    <3>2. ServedBy(submission.context)' = ServedBy(submission.context)
      BY <3>1 DEF ServedBy
    <3>3. \A s, t \in ServedBy(submission.context) : s = t
      BY <3>1, OneForm
    <3>4. CheckedInv'
      <4> SUFFICES ASSUME NEW schema \in ServedBy(submission.context)
                   PROVE  checked' = [verdict |-> IF FieldErrors(schema, submission.values) = <<>>
                                                  THEN "valid" ELSE "errors",
                                      errors  |-> FieldErrors(schema, submission.values),
                                      prose   |-> FreeText(schema, submission.values)]
        BY <3>1, <3>2 DEF CheckedInv
      <4>1. ServedBy(submission.context) # {}
        OBVIOUS
      <4>2. PICK s \in ServedBy(submission.context) :
              checked' = [verdict |-> IF FieldErrors(s, submission.values) = <<>>
                                      THEN "valid" ELSE "errors",
                          errors  |-> FieldErrors(s, submission.values),
                          prose   |-> FreeText(s, submission.values)]
        BY <2>2, <4>1 DEF ValidateSubmission
      <4>3. s = schema
        BY <3>3
      <4> QED BY <4>2, <4>3
    <3>5. desk = None /\ body = None
      BY <3>1 DEF FormsInv
    <3>6. kept # None => KeptInv'
      BY <3>1, <3>2 DEF FormsInv, KeptInv
    <3> QED BY <3>1, <3>4, <3>5, <3>6 DEF FormsInv
  <2>3. CASE FillBody
    <3>1. /\ checked # None /\ checked.verdict = "valid" /\ desk = None
          /\ registry' = registry /\ folder' = folder /\ submission' = submission
          /\ checked' = checked /\ reply' = reply /\ kept' = kept
      BY <2>3 DEF FillBody
    <3>2. ServedBy(submission.context)' = ServedBy(submission.context)
      BY <3>1 DEF ServedBy
    <3>3. desk' # None /\ FiledInv'
      <4>1. PICK schema \in ServedBy(submission.context), provider \in Desks :
              /\ provider.scheme = submission.context.scheme /\ desk' = provider
              /\ \/ UnderAValue(schema.mustSend) /\ body' = body
                 \/ body' = BodyOf(schema, provider, submission.values)
        BY <2>3 DEF FillBody, BodyOf
      <4>2. desk' # None
        BY <4>1, FormsAssumption DEF FormsAssumption
      <4>3. BodyOf(schema, desk', submission'.values) = BodyOf(schema, provider, submission.values)
        BY <3>1, <4>1
      <4>4. body = None
        BY <3>1 DEF FormsInv
      <4>5. /\ schema \in ServedBy(submission.context)'
            /\ desk'.scheme = submission'.context.scheme
            /\ \/ body' = None /\ UnderAValue(schema.mustSend)
               \/ body' = BodyOf(schema, desk', submission'.values)
        BY <3>1, <3>2, <4>1, <4>3, <4>4
      <4> QED BY <3>1, <4>2, <4>5 DEF FiledInv
    <3>4. CheckedInv'
      BY <3>1, <3>2 DEF FormsInv, CheckedInv
    <3>5. kept # None => KeptInv'
      BY <3>1, <3>2 DEF FormsInv, KeptInv
    <3> QED BY <3>1, <3>3, <3>4, <3>5 DEF FormsInv
  <2>4. CASE KeepReply
    <3>1. /\ body # None /\ registry' = registry /\ folder' = folder
          /\ submission' = submission /\ checked' = checked /\ desk' = desk /\ body' = body
      BY <2>4 DEF KeepReply
    <3>2. ServedBy(submission.context)' = ServedBy(submission.context)
      BY <3>1 DEF ServedBy
    <3>3. KeptInv'
      <4>1. PICK nodes \in Replies, schema \in ServedBy(submission.context) :
              reply' = nodes /\ kept' = Without(nodes, FarmerFields(schema))
        BY <2>4 DEF KeepReply
      <4> QED BY <3>2, <4>1 DEF KeptInv
    <3>4. registry # None /\ checked # None
      BY <3>1 DEF FormsInv
    <3>5. CheckedInv' /\ FiledInv'
      BY <3>1, <3>2, <3>4 DEF FormsInv, CheckedInv, FiledInv
    <3> QED BY <3>1, <3>3, <3>4, <3>5 DEF FormsInv
  <2>5. CASE UNCHANGED fvars
    <3>1. /\ registry' = registry /\ folder' = folder /\ submission' = submission
          /\ checked' = checked /\ desk' = desk /\ body' = body /\ reply' = reply /\ kept' = kept
      BY <2>5 DEF fvars
    <3>2. ServedBy(submission.context)' = ServedBy(submission.context)
      BY <3>1 DEF ServedBy
    <3> QED BY <3>1, <3>2 DEF FormsInv, CheckedInv, FiledInv, KeptInv
  <2> QED BY <2>1, <2>2, <2>3, <2>4, <2>5 DEF FormsNext
<1> QED BY <1>1, <1>2, PTL DEF FormsSpec

\* A scheme that needs a step the DSS cannot run is served by no pack, every
\* other context of a readable pack is served once, and a pack that cannot be
\* read costs only its own (build_form_registry).
THEOREM FormsServeWhatTheyCanFinish == FormsSpec => []ServesWhatItCanFinish
<1>1. FormsInv => ServesWhatItCanFinish
  <2> SUFFICES ASSUME FormsInv, registry # None PROVE ServesWhatItCanFinish
    BY DEF ServesWhatItCanFinish
  <2>1. folder \in Folders /\ registry = RegistryOf(folder)
    BY DEF FormsInv
  <2> QED BY <2>1, RegistryIs DEF ServesWhatItCanFinish, Readable
<1> QED BY <1>1, FormsInvariance, PTL

\* Faulty is FaultyIn of what the farmer sent.
LEMMA FaultyIs ==
  ASSUME NEW schema, NEW name
  PROVE  Faulty(schema, name) <=> FaultyIn(schema, name, submission.values)
BY DEF Faulty, FaultyIn, BreaksARule

\* A field of a form that is filed has the value of its source.
LEMMA FieldFilled ==
  ASSUME NEW schema, WellFormed(schema), NEW provider, NEW values \in Seq(SentValue),
         NEW f \in ToSet(schema.mustSend), f.path \in Outer(PathsOf(schema)),
         Source(f) = "farmer" => ~FaultyIn(schema, f.path, values)
  PROVE  LET value == BodyOf(schema, provider, values)[f.path]
         IN  CASE Source(f) = "fixed"    -> {value} = ToSet(f.allowed)
               [] Source(f) = "provider" ->
                    value = IF Last(f.path) = "id" THEN provider.id ELSE provider.name
               [] OTHER -> /\ [name |-> f.path, value |-> value] \in ToSet(values)
                           /\ f.allowed # <<>> => value \in Options(f)
                           /\ f.freetext => value \in ToSet(FreeText(schema, values))
<1> DEFINE value == BodyOf(schema, provider, values)[f.path]
           field == CHOOSE g \in ToSet(schema.mustSend) : g.path = f.path
<1>1. field = f
  <2>1. field \in ToSet(schema.mustSend) /\ field.path = f.path
    OBVIOUS
  <2>2. \A g, h \in ToSet(schema.mustSend) : g.path = h.path => g = h
    BY DEF WellFormed, OneFieldAPath
  <2> HIDE DEF field
  <2> QED BY <2>1, <2>2
<1>2. value = ValueFor(f, provider, values)
  <2>1. value = ValueFor(field, provider, values)
    BY DEF BodyOf
  <2> QED BY <1>1, <2>1
<1> HIDE DEF value, field
<1>3. f \in PackField
  BY DEF WellFormed, ToSet
<1>4. CASE Source(f) = "fixed"
  <2>1. f.allowed \in Seq(Values)
    BY <1>3 DEF PackField
  <2>2. Len(f.allowed) = 1
    BY <1>4 DEF Source
  <2>3. ToSet(f.allowed) = {f.allowed[1]}
    BY <2>1, <2>2 DEF ToSet
  <2>4. value = f.allowed[1]
    BY <1>2, <1>4 DEF ValueFor
  <2> QED BY <1>4, <2>3, <2>4 DEF value
<1>5. CASE Source(f) = "provider"
  <2>1. f.path = <<"provider", "id">> \/ f.path = <<"provider", "descriptor", "name">>
    BY <1>5 DEF WellFormed, ProviderPaths
  <2>2. value = IF f.path = <<"provider", "id">> THEN provider.id ELSE provider.name
    BY <1>2, <1>5 DEF ValueFor
  <2>3. /\ f.path = <<"provider", "id">> => Last(f.path) = "id"
        /\ f.path = <<"provider", "descriptor", "name">> => Last(f.path) = "name"
    <3>1. /\ Len(<<"provider", "id">>) = 2 /\ <<"provider", "id">>[2] = "id"
          /\ Len(<<"provider", "descriptor", "name">>) = 3
          /\ <<"provider", "descriptor", "name">>[3] = "name"
      OBVIOUS
    <3> QED BY <3>1 DEF Last
  <2>4. <<"provider", "id">> # <<"provider", "descriptor", "name">>
    OBVIOUS
  <2> QED BY <1>5, <2>1, <2>2, <2>3, <2>4 DEF value
<1>6. CASE Source(f) # "fixed" /\ Source(f) # "provider"
  <2>1. Source(f) = "farmer"
    BY <1>6 DEF Source
  <2>2. value = LastSent(f.path, values)
    BY <1>2, <1>6 DEF ValueFor
  <2>3. f \in ToSet(FarmerFields(schema)) /\ FarmerFields(schema) \in Seq(PackField)
    BY <2>1, FarmersAre
  <2>4. Sightings(f.path, values) = 1
    BY <2>1 DEF FaultyIn
  <2>5. /\ [name |-> f.path, value |-> value] \in ToSet(values)
        /\ {v.value : v \in {u \in ToSet(values) : u.name = f.path}} = {value}
    BY <2>2, <2>4, SentOnce
  <2>6. ~BreaksARule(f, value)
    BY <2>1, <2>3, <2>5 DEF FaultyIn
  <2>7. ASSUME f.freetext PROVE value \in ToSet(FreeText(schema, values))
    <3> DEFINE K      == {g \in ToSet(FarmerFields(schema)) : g.freetext}
               fields == Keep(FarmerFields(schema), K)
    <3>1. FreeText(schema, values) = [i \in DOMAIN fields |-> LastSent(fields[i].path, values)]
      BY DEF FreeText
    <3>2. f \in K
      BY <2>3, <2>7
    <3>3. f \in ToSet(fields)
      <4> HIDE DEF K
      <4> QED BY <2>3, <3>2, KeepWhere
    <3> HIDE DEF fields
    <3>4. PICK i \in DOMAIN fields : fields[i] = f
      BY <3>3 DEF ToSet
    <3> QED BY <2>2, <3>1, <3>4 DEF ToSet
  <2> QED BY <1>6, <2>5, <2>6, <2>7 DEF value, BreaksARule
<1> QED BY <1>4, <1>5, <1>6

\* A form whose paths cannot all be set has one under another.
LEMMA NotAllOuter ==
  ASSUME NEW schema, UnderAValue(schema.mustSend)
  PROVE  Outer(PathsOf(schema)) # PathsOf(schema)
<1>1. PICK i \in DOMAIN schema.mustSend, j \in DOMAIN schema.mustSend :
        IsStrictPrefix(schema.mustSend[i].path, schema.mustSend[j].path)
  BY DEF UnderAValue
<1>2. schema.mustSend[i].path \in PathsOf(schema) /\ schema.mustSend[j].path \in PathsOf(schema)
  BY DEF PathsOf, ToSet
<1> QED BY <1>1, <1>2 DEF Outer

\* By the rules a form has of its pack, a farmer is handed back every name that
\* is at fault and no other; a desk is chosen only for a form with none; and where
\* no path lies under another, and wherever else the call to it is made, the call
\* has each path that lies under no other, the pack's fixed value, the desk's
\* own or what the farmer sent, and nothing else (validate_submission,
\* build_action_attributes).
THEOREM FormsFiledAsThePackAsks == FormsSpec => []FiledAsThePackAsks
<1>1. FormsInv => FiledAsThePackAsks
  <2> SUFFICES ASSUME FormsInv, checked # None, NEW schema \in ServedBy(submission.context)
               PROVE
    LET names  == {f.path : f \in ToSet(FarmerFields(schema))}
                  \cup {v.name : v \in ToSet(submission.values)}
        faulty == {n \in names : Faulty(schema, n)}
        told   == [i \in DOMAIN checked.errors |-> checked.errors[i].name]
        paths  == PathsOf(schema)
    IN  /\ ToSet(told) = faulty
        /\ ListedOnce(schema.mustSend) => Len(told) = Cardinality(faulty)
        /\ desk # None => faulty = {} /\ desk.scheme = submission.context.scheme
        /\ body # None => desk # None
        /\ desk # None /\ (body # None \/ Outer(paths) = paths) =>
             /\ DOMAIN body = Outer(paths)
             /\ \A f \in ToSet(schema.mustSend) : f.path \in Outer(paths) =>
                  CASE Source(f) = "fixed"    -> {body[f.path]} = ToSet(f.allowed)
                    [] Source(f) = "provider" ->
                         body[f.path] = IF Last(f.path) = "id" THEN desk.id ELSE desk.name
                    [] OTHER -> /\ [name |-> f.path, value |-> body[f.path]]
                                     \in ToSet(submission.values)
                                /\ f.allowed # <<>> => body[f.path] \in Options(f)
                                /\ f.freetext => body[f.path] \in ToSet(checked.prose)
    BY DEF FiledAsThePackAsks
  <2> DEFINE values == submission.values
             names  == {f.path : f \in ToSet(FarmerFields(schema))}
                       \cup {v.name : v \in ToSet(values)}
             faulty == {n \in names : Faulty(schema, n)}
             told   == [i \in DOMAIN checked.errors |-> checked.errors[i].name]
             errors == FieldErrors(schema, values)
             paths  == PathsOf(schema)
  <2>1. /\ registry # None /\ submission \in Submissions
        /\ checked = [verdict |-> IF errors = <<>> THEN "valid" ELSE "errors",
                      errors  |-> errors, prose |-> FreeText(schema, values)]
    BY DEF FormsInv, CheckedInv
  <2>2. WellFormed(schema) /\ \A s \in ServedBy(submission.context) : s = schema
    BY <2>1, OneForm
  <2>3. values \in Seq(SentValue)
    <3> DEFINE Sent == [name : Seq(STRING), value : Texts]
    <3>1. values \in Seq(Sent)
      BY <2>1, FormsAssumption DEF FormsAssumption
    <3>2. Sent \subseteq SentValue
      BY DEF SentValue, Texts
    <3> HIDE DEF values, Sent
    <3>3. /\ Len(values) \in Nat /\ values = [i \in 1 .. Len(values) |-> values[i]]
          /\ \A i \in 1 .. Len(values) : values[i] \in Sent
      BY <3>1
    <3>4. \A i \in 1 .. Len(values) : values[i] \in SentValue
      BY <3>2, <3>3
    <3> QED BY <3>3, <3>4
  <2>4. /\ checked.errors = errors /\ checked.prose = FreeText(schema, values)
        /\ checked.verdict = "valid" => errors = <<>>
    BY <2>1
  <2>5. told = Names(errors)
    BY <2>4 DEF Names
  <2> HIDE DEF values, errors, told
  <2>6. /\ told \in Seq(Seq(STRING)) /\ (ListedOnce(schema.mustSend) => Once(told))
        /\ Len(told) = Len(errors)
        /\ \A n : n \in ToSet(told) <=>
             /\ \/ \E f \in ToSet(FarmerFields(schema)) : f.path = n
                \/ \E v \in ToSet(values) : v.name = n
             /\ FaultyIn(schema, n, values)
    BY <2>2, <2>3, <2>5, ToldAre DEF errors
  <2>7. \A n : Faulty(schema, n) <=> FaultyIn(schema, n, values)
    BY FaultyIs DEF values
  <2>8. ToSet(told) = faulty
    BY <2>6, <2>7
  <2>9. ListedOnce(schema.mustSend) => Len(told) = Cardinality(faulty)
    BY <2>6, <2>8, OnceCounts
  <2>10. ASSUME desk # None
         PROVE  /\ faulty = {} /\ desk.scheme = submission.context.scheme
                /\ \/ body = None /\ UnderAValue(schema.mustSend)
                   \/ body = BodyOf(schema, desk, values)
    <3>1. /\ errors = <<>> /\ desk.scheme = submission.context.scheme
          /\ \/ body = None /\ UnderAValue(schema.mustSend)
             \/ body = BodyOf(schema, desk, values)
      BY <2>2, <2>4, <2>10 DEF FormsInv, FiledInv, values
    <3>2. told = <<>>
      BY <2>5, <3>1 DEF Names
    <3>3. ToSet(told) = {}
      BY <3>2 DEF ToSet
    <3> QED BY <2>8, <3>1, <3>3
  <2>11. ASSUME desk # None, NEW f \in ToSet(schema.mustSend), Source(f) = "farmer"
         PROVE  ~FaultyIn(schema, f.path, values)
    <3>1. f \in ToSet(FarmerFields(schema))
      BY <2>2, <2>11, FarmersAre
    <3>2. f.path \in names /\ faulty = {}
      BY <3>1, <2>10, <2>11
    <3> QED BY <2>7, <3>2
  <2>12. body # None => desk # None
    BY DEF FormsInv
  <2>13. ASSUME desk # None, body # None \/ Outer(paths) = paths
         PROVE  /\ DOMAIN body = Outer(paths)
                /\ \A f \in ToSet(schema.mustSend) : f.path \in Outer(paths) =>
                     CASE Source(f) = "fixed"    -> {body[f.path]} = ToSet(f.allowed)
                       [] Source(f) = "provider" ->
                            body[f.path] = IF Last(f.path) = "id" THEN desk.id ELSE desk.name
                       [] OTHER -> /\ [name |-> f.path, value |-> body[f.path]] \in ToSet(values)
                                   /\ f.allowed # <<>> => body[f.path] \in Options(f)
                                   /\ f.freetext => body[f.path] \in ToSet(checked.prose)
    <3>1. body = BodyOf(schema, desk, values)
      BY <2>10, <2>13, NotAllOuter
    <3>2. DOMAIN body = Outer(paths)
      BY <3>1 DEF BodyOf
    <3> QED BY <2>2, <2>3, <2>4, <2>11, <2>13, <3>1, <3>2, FieldFilled
  <2> HIDE DEF names, faulty, paths
  <2> QED BY <2>8, <2>9, <2>10, <2>12, <2>13 DEF values, told, names, faulty, paths
<1> QED BY <1>1, FormsInvariance, PTL

-----------------------------------------------------------------------------
\* What is kept of a desk's reply.

Path == Seq(STRING)

\* A path is before another when it has the same segments as far as it goes.
LEMMA PrefixIs ==
  ASSUME NEW p \in Path, NEW q \in Path
  PROVE  IsPrefix(p, q) <=> Len(p) <= Len(q) /\ \A i \in 1 .. Len(p) : p[i] = q[i]
<1>1. Len(p) \in Nat /\ Len(q) \in Nat
  BY DEF Path
<1>2. /\ SubSeq(p, 1, Len(p)) = [i \in 1 .. Len(p) |-> p[i]]
      /\ Len(p) <= Len(q) => SubSeq(q, 1, Len(p)) = [i \in 1 .. Len(p) |-> q[i]]
  BY <1>1 DEF Path
<1>3. ASSUME [i \in 1 .. Len(p) |-> p[i]] = [i \in 1 .. Len(p) |-> q[i]], NEW i \in 1 .. Len(p)
      PROVE  p[i] = q[i]
  <2>1. [j \in 1 .. Len(p) |-> p[j]][i] = [j \in 1 .. Len(p) |-> q[j]][i]
    BY <1>3
  <2> QED BY <2>1
<1> QED BY <1>1, <1>2, <1>3 DEF IsPrefix

\* Paths before one path are before one another.
LEMMA PrefixOrder ==
  ASSUME NEW p \in Path, NEW q \in Path, NEW r \in Path
  PROVE  /\ IsPrefix(p, p)
         /\ IsPrefix(p, q) /\ IsPrefix(q, r) => IsPrefix(p, r)
         /\ IsPrefix(p, q) /\ IsPrefix(q, p) => p = q
         /\ IsPrefix(p, r) /\ IsPrefix(q, r) => IsPrefix(p, q) \/ IsPrefix(q, p)
<1>1. Len(p) \in Nat /\ Len(q) \in Nat /\ Len(r) \in Nat
  BY DEF Path
<1>2. IsPrefix(p, p)
  BY <1>1, PrefixIs
<1>3. ASSUME IsPrefix(p, q), IsPrefix(q, r) PROVE IsPrefix(p, r)
  <2>1. /\ Len(p) <= Len(q) /\ Len(q) <= Len(r)
        /\ \A i \in 1 .. Len(p) : p[i] = q[i]
        /\ \A i \in 1 .. Len(q) : q[i] = r[i]
    BY <1>3, PrefixIs
  <2>2. Len(p) <= Len(r) /\ \A i \in 1 .. Len(p) : p[i] = r[i]
    BY <1>1, <2>1
  <2> QED BY <2>2, PrefixIs
<1>4. ASSUME IsPrefix(p, q), IsPrefix(q, p) PROVE p = q
  <2>1. Len(p) = Len(q) /\ \A i \in 1 .. Len(p) : p[i] = q[i]
    BY <1>1, <1>4, PrefixIs
  <2> QED BY <2>1 DEF Path
<1>5. ASSUME IsPrefix(p, r), IsPrefix(q, r) PROVE IsPrefix(p, q) \/ IsPrefix(q, p)
  <2>1. /\ \A i \in 1 .. Len(p) : p[i] = r[i]
        /\ \A i \in 1 .. Len(q) : q[i] = r[i]
    BY <1>5, PrefixIs
  <2>2. CASE Len(p) <= Len(q)
    BY <1>1, <2>1, <2>2, PrefixIs
  <2>3. CASE Len(q) <= Len(p)
    BY <1>1, <2>1, <2>3, PrefixIs
  <2> QED BY <1>1, <2>2, <2>3
<1> QED BY <1>2, <1>3, <1>4, <1>5

\* The parents of a path are the paths before it.
LEMMA ParentsAre ==
  ASSUME NEW path \in Path
  PROVE  /\ Parents(path) \subseteq Path
         /\ \A p \in Path : p # <<>> => (p \in Parents(path) <=> IsStrictPrefix(p, path))
         /\ \A p \in Parents(path) : IsStrictPrefix(p, path)
<1>1. Len(path) \in Nat
  BY DEF Path
<1>2. \A k \in 1 .. Len(path) - 1 :
        /\ SubSeq(path, 1, k) \in Path /\ Len(SubSeq(path, 1, k)) = k
        /\ \A i \in 1 .. k : SubSeq(path, 1, k)[i] = path[i]
  BY <1>1 DEF Path
<1>3. ASSUME NEW k \in 1 .. Len(path) - 1
      PROVE  SubSeq(path, 1, k) \in Path /\ IsStrictPrefix(SubSeq(path, 1, k), path)
  <2> DEFINE p == SubSeq(path, 1, k)
  <2>1. p \in Path /\ Len(p) = k /\ \A i \in 1 .. k : p[i] = path[i]
    BY <1>2
  <2> HIDE DEF p
  <2>2. Len(p) <= Len(path) /\ Len(p) # Len(path)
    BY <1>1, <2>1
  <2>3. IsStrictPrefix(p, path)
    BY <2>1, <2>2, PrefixIs DEF IsStrictPrefix
  <2> QED BY <2>1, <2>3 DEF p
<1>4. ASSUME NEW p \in Path, p # <<>>, IsStrictPrefix(p, path) PROVE p \in Parents(path)
  <2>1. Len(p) \in Nat /\ Len(p) # 0
    BY <1>4 DEF Path
  <2>2. /\ Len(p) <= Len(path) /\ p # path
        /\ \A i \in 1 .. Len(p) : p[i] = path[i]
    BY <1>4, PrefixIs DEF IsStrictPrefix
  <2>3. Len(p) # Len(path)
    BY <2>2 DEF Path
  <2>4. Len(p) \in 1 .. Len(path) - 1
    BY <1>1, <2>1, <2>2, <2>3
  <2>5. p = SubSeq(path, 1, Len(p))
    BY <1>2, <2>2, <2>4 DEF Path
  <2> QED BY <2>4, <2>5 DEF Parents
<1> QED BY <1>3, <1>4 DEF Parents

\* Deleting at a path leaves nothing there, all that is neither under it nor
\* above it, and no object that had something under it with nothing.
LEMMA DeletedAt ==
  ASSUME NEW nodes, Tree(nodes), NEW path \in Path
  PROVE  LET rest == DeleteAt(nodes, path)
         IN  /\ rest \subseteq nodes /\ Tree(rest)
             /\ \A n \in rest : ~IsPrefix(path, n.path)
             /\ \A n \in nodes : ~IsPrefix(path, n.path) /\ ~IsStrictPrefix(n.path, path)
                                   => n \in rest
             /\ \A n \in rest : (\E m \in nodes : IsStrictPrefix(n.path, m.path))
                                  => \E m \in rest : IsStrictPrefix(n.path, m.path)
<1> DEFINE others       == nodes \ Under(path, nodes)
           Emptied(n) == \A m \in Under(n.path, others) : m.path \in Parents(path)
           kin        == {n \in others : n.path \in Parents(path) => ~Emptied(n)}
           reached    == \A p \in Parents(path) : \E n \in nodes : n.path = p /\ n.object
           rest       == DeleteAt(nodes, path)
<1>1. rest = IF reached THEN kin ELSE nodes
  BY DEF DeleteAt
<1>2. /\ \A n \in nodes : n.path \in Path /\ n.path # <<>>
      /\ \A n \in nodes : \A p \in Parents(n.path) : \E m \in nodes : m.path = p /\ m.object
  BY DEF Tree, Path
<1>3. \A n : n \in others <=> n \in nodes /\ ~IsPrefix(path, n.path)
  BY DEF Under
<1>4. \A n : n \in kin <=>
        /\ n \in others
        /\ (n.path \in Parents(path) =>
              \E m \in others : IsPrefix(n.path, m.path) /\ m.path \notin Parents(path))
  BY DEF Under
<1> HIDE DEF others, kin, rest, reached
<1>5. CASE ~reached
  <2>1. PICK p \in Parents(path) : \A n \in nodes : ~(n.path = p /\ n.object)
    BY <1>5 DEF reached
  <2>2. p \in Path /\ p # <<>> /\ IsStrictPrefix(p, path)
    <3>1. \A k \in 1 .. Len(path) - 1 : SubSeq(path, 1, k) # <<>>
      BY DEF Path
    <3>2. p # <<>>
      BY <3>1 DEF Parents
    <3> QED BY <3>2, ParentsAre
  <2>3. ASSUME NEW n \in nodes, IsPrefix(path, n.path) PROVE FALSE
    <3>1. n.path \in Path
      BY <1>2
    <3>2. IsPrefix(p, n.path)
      BY <2>2, <2>3, <3>1, PrefixOrder DEF IsStrictPrefix
    <3>3. p # n.path
      BY <2>2, <2>3, <3>1, PrefixOrder DEF IsStrictPrefix
    <3>4. p \in Parents(n.path)
      BY <2>2, <3>1, <3>2, <3>3, ParentsAre DEF IsStrictPrefix
    <3> QED BY <1>2, <2>1, <3>4
  <2> QED BY <1>1, <1>5, <2>3 DEF rest
<1>6. CASE reached
  <2>1. rest = kin
    BY <1>1, <1>6
  <2>2. rest \subseteq nodes /\ \A n \in rest : ~IsPrefix(path, n.path)
    BY <2>1, <1>3, <1>4
  <2>3. \A n \in nodes : ~IsPrefix(path, n.path) /\ ~IsStrictPrefix(n.path, path) => n \in rest
    BY <2>1, <1>3, <1>4, ParentsAre
  <2>4. ASSUME NEW n \in rest, NEW p \in Parents(n.path)
        PROVE  \E m \in rest : m.path = p /\ m.object
    <3>1. n \in others /\ n \in nodes /\ n.path \in Path
      BY <1>2, <1>3, <1>4, <2>1, <2>4
    <3>2. PICK m \in nodes : m.path = p /\ m.object
      BY <1>2, <3>1, <2>4
    <3>3. m.path \in Path /\ IsStrictPrefix(m.path, n.path)
      BY <1>2, <3>1, <3>2, <2>4, ParentsAre
    <3>4. ~IsPrefix(path, m.path)
      BY <1>3, <3>1, <3>3, PrefixOrder DEF IsStrictPrefix
    <3>5. m \in others
      BY <1>3, <3>4
    <3>6. ASSUME m.path \in Parents(path)
          PROVE  \E l \in others : IsPrefix(m.path, l.path) /\ l.path \notin Parents(path)
      <4>1. CASE n.path \notin Parents(path)
        BY <3>1, <3>3, <4>1 DEF IsStrictPrefix
      <4>2. CASE n.path \in Parents(path)
        <5>1. PICK l \in others : IsPrefix(n.path, l.path) /\ l.path \notin Parents(path)
          BY <1>4, <2>1, <4>2
        <5>2. l.path \in Path
          BY <1>2, <1>3
        <5>3. IsPrefix(m.path, l.path)
          BY <3>1, <3>3, <5>1, <5>2, PrefixOrder DEF IsStrictPrefix
        <5> QED BY <5>1, <5>3
      <4> QED BY <4>1, <4>2
    <3>7. m \in rest
      BY <1>4, <2>1, <3>5, <3>6
    <3> QED BY <3>2, <3>7
  <2>5. Tree(rest)
    BY <1>2, <2>2, <2>4 DEF Tree, Path
  <2>6. ASSUME NEW n \in rest, NEW m \in nodes, IsStrictPrefix(n.path, m.path)
        PROVE  \E l \in rest : IsStrictPrefix(n.path, l.path)
    <3>1. /\ n \in others /\ n \in nodes /\ n.path \in Path /\ n.path # <<>> /\ m.path \in Path
          /\ ~IsPrefix(path, n.path)
      BY <1>2, <1>3, <1>4, <2>1, <2>6
    <3>2. CASE n.path \in Parents(path)
      <4>1. PICK l \in others : IsPrefix(n.path, l.path) /\ l.path \notin Parents(path)
        BY <1>4, <2>1, <3>2
      <4>2. l \in rest
        BY <1>4, <2>1, <4>1
      <4>3. n.path # l.path
        BY <3>2, <4>1
      <4> QED BY <4>1, <4>2, <4>3 DEF IsStrictPrefix
    <3>3. CASE n.path \notin Parents(path)
      <4>1. ~IsStrictPrefix(n.path, path)
        BY <3>1, <3>3, ParentsAre
      <4>2. ~IsPrefix(n.path, path)
        <5>1. n.path # path
          BY <3>1, PrefixOrder
        <5> QED BY <4>1, <5>1 DEF IsStrictPrefix
      <4>3. ~IsPrefix(path, m.path)
        BY <2>6, <3>1, <4>2, PrefixOrder DEF IsStrictPrefix
      <4>4. m \in others
        BY <1>3, <4>3
      <4>5. m.path \notin Parents(path)
        <5>1. ~IsPrefix(m.path, path)
          BY <2>6, <3>1, <4>2, PrefixOrder DEF IsStrictPrefix
        <5> QED BY <3>1, <5>1, ParentsAre DEF IsStrictPrefix
      <4>6. m \in rest
        BY <1>4, <2>1, <4>4, <4>5
      <4> QED BY <2>6, <4>6
    <3> QED BY <3>2, <3>3
  <2> QED BY <2>2, <2>3, <2>5, <2>6 DEF rest
<1> QED BY <1>5, <1>6

\* One deletion after the other, of each of the fields' paths.
Deletes(rest, nodes, fields) ==
  /\ rest \in [0 .. Len(fields) -> SUBSET nodes]
  /\ rest[0] = nodes
  /\ \A n \in 1 .. Len(fields) : rest[n] = DeleteAt(rest[n - 1], fields[n].path)

\* Without's recursive function is that.
LEMMA WithoutExists ==
  ASSUME NEW nodes, NEW fields \in Seq(PackField)
  PROVE  \E rest : Deletes(rest, nodes, fields) /\ Without(nodes, fields) = rest[Len(fields)]
<1> DEFINE N == Len(fields)
           V == SUBSET nodes
           step == [n \in 1 .. N |-> [v \in V |-> DeleteAt(v, fields[n].path)]]
           rest[n \in 0 .. N] ==
             IF n = 0 THEN nodes ELSE DeleteAt(rest[n - 1], fields[n].path)
<1>1. N \in Nat /\ nodes \in V
  OBVIOUS
<1>2. step \in [1 .. N -> [V -> V]]
  <2>1. \A v \in V : \A p : DeleteAt(v, p) \in V
    BY DEF DeleteAt
  <2> HIDE DEF V, N
  <2> QED BY <2>1
<1> HIDE DEF N, V
<1>3. PICK g \in [0 .. N -> V] : Follows(g, N, nodes, step)
  <2> HIDE DEF step, rest
  <2> QED BY <1>1, <1>2, Recursion
<1>4. \A k \in 1 .. N : g[k] = DeleteAt(g[k - 1], fields[k].path)
  <2> SUFFICES ASSUME NEW k \in 1 .. N PROVE g[k] = DeleteAt(g[k - 1], fields[k].path)
    OBVIOUS
  <2>1. k - 1 \in 0 .. N
    BY <1>1
  <2>2. g[k - 1] \in V
    BY <1>3, <2>1
  <2> QED BY <1>3, <2>2 DEF Follows
<1>5. g = [n \in 0 .. N |-> IF n = 0 THEN nodes ELSE DeleteAt(g[n - 1], fields[n].path)]
  <2>1. ASSUME NEW n \in 0 .. N
        PROVE  g[n] = IF n = 0 THEN nodes ELSE DeleteAt(g[n - 1], fields[n].path)
    <3>1. CASE n = 0
      BY <3>1, <1>3 DEF Follows
    <3>2. CASE n # 0
      <4>1. n \in 1 .. N
        BY <3>2, <1>1
      <4> QED BY <3>2, <4>1, <1>4
    <3> QED BY <3>1, <3>2
  <2>2. g = [n \in 0 .. N |-> g[n]]
    BY <1>3
  <2> QED BY <2>1, <2>2, Zenon
<1>6. rest = [n \in 0 .. N |-> IF n = 0 THEN nodes ELSE DeleteAt(rest[n - 1], fields[n].path)]
  BY <1>5, Zenon
<1>7. Without(nodes, fields) = rest[N]
  BY DEF Without, N
<1> HIDE DEF rest
<1>8. rest[0] = nodes /\ \A n \in 1 .. N : rest[n] = DeleteAt(rest[n - 1], fields[n].path)
  <2>1. ASSUME NEW n \in 0 .. N
        PROVE  rest[n] = IF n = 0 THEN nodes ELSE DeleteAt(rest[n - 1], fields[n].path)
    BY <1>6
  <2>2. 0 \in 0 .. N /\ \A n \in 1 .. N : n \in 0 .. N /\ n # 0
    BY <1>1
  <2> QED BY <2>1, <2>2
<1>9. \A n \in 0 .. N : rest[n] \in V
  <2> DEFINE S == {n \in Nat : n <= N => rest[n] \in V}
  <2>1. 0 \in S
    BY <1>1, <1>8
  <2>2. ASSUME NEW n \in Nat, n \in S PROVE n + 1 \in S
    <3> SUFFICES ASSUME n + 1 <= N PROVE rest[n + 1] \in V
      OBVIOUS
    <3>1. rest[n] \in V /\ n + 1 \in 1 .. N /\ (n + 1) - 1 = n
      BY <1>1, <2>2
    <3>2. rest[n + 1] = DeleteAt(rest[n], fields[n + 1].path)
      BY <1>8, <3>1
    <3>3. DeleteAt(rest[n], fields[n + 1].path) \subseteq rest[n]
      BY DEF DeleteAt
    <3> QED BY <3>1, <3>2, <3>3 DEF V
  <2> HIDE DEF S
  <2>3. Nat \subseteq S
    BY <2>1, <2>2, NatSets
  <2> QED BY <1>1, <2>3 DEF S
<1>10. rest \in [0 .. N -> V]
  BY <1>6, <1>9
<1> QED BY <1>7, <1>8, <1>10 DEF Deletes, N, V

\* What is kept of a reply's nodes: none of the fields' paths and what is under
\* them, everything that is neither there nor above them, and no object empty
\* of what it had.
LEMMA WithoutIs ==
  ASSUME NEW nodes, Tree(nodes), NEW fields \in Seq(PackField)
  PROVE  LET rest == Without(nodes, fields)
         IN  /\ \A n \in rest : \A i \in DOMAIN fields : ~IsPrefix(fields[i].path, n.path)
             /\ \A n \in nodes :
                  (\A i \in DOMAIN fields : /\ ~IsPrefix(fields[i].path, n.path)
                                            /\ ~IsStrictPrefix(n.path, fields[i].path))
                  => n \in rest
             /\ \A n \in rest : (\E m \in nodes : IsStrictPrefix(n.path, m.path))
                                  => \E m \in rest : IsStrictPrefix(n.path, m.path)
<1>1. PICK rest : Deletes(rest, nodes, fields) /\ Without(nodes, fields) = rest[Len(fields)]
  BY WithoutExists
<1> DEFINE N == Len(fields)
           Taken(k)  == \A n \in rest[k] : \A i \in 1 .. k : ~IsPrefix(fields[i].path, n.path)
           Spared(k) == \A n \in nodes :
                         (\A i \in 1 .. N : /\ ~IsPrefix(fields[i].path, n.path)
                                            /\ ~IsStrictPrefix(n.path, fields[i].path))
                         => n \in rest[k]
           Filled(k) == \A n \in rest[k] : (\E m \in nodes : IsStrictPrefix(n.path, m.path))
                                            => \E m \in rest[k] : IsStrictPrefix(n.path, m.path)
           S == {k \in Nat : k <= N => Tree(rest[k]) /\ Taken(k) /\ Spared(k) /\ Filled(k)}
<1>2. /\ N \in Nat /\ rest[0] = nodes /\ DOMAIN fields = 1 .. N
      /\ \A k \in 1 .. N : fields[k].path \in Path /\ rest[k] = DeleteAt(rest[k - 1], fields[k].path)
  <2>1. \A k \in 1 .. N : fields[k] \in PackField
    OBVIOUS
  <2>2. \A k \in 1 .. N : fields[k].path \in Path
    BY <2>1 DEF PackField, Path
  <2> QED BY <1>1, <2>2 DEF Deletes
<1> HIDE DEF N
<1>3. 0 \in S
  BY <1>2
<1>4. ASSUME NEW k \in Nat, k \in S PROVE k + 1 \in S
  <2> SUFFICES ASSUME k + 1 <= N
               PROVE  Tree(rest[k + 1]) /\ Taken(k + 1) /\ Spared(k + 1) /\ Filled(k + 1)
    OBVIOUS
  <2>1. /\ k + 1 \in 1 .. N /\ (k + 1) - 1 = k
        /\ \A i \in 1 .. k + 1 : i = k + 1 \/ i \in 1 .. k
    BY <1>2
  <2>2. Tree(rest[k]) /\ Taken(k) /\ Spared(k) /\ Filled(k)
    BY <1>2, <1>4, <2>1
  <2> DEFINE path == fields[k + 1].path
  <2>3. path \in Path /\ rest[k + 1] = DeleteAt(rest[k], path)
    BY <1>2, <2>1
  <2> HIDE DEF path
  <2>4. /\ rest[k + 1] \subseteq rest[k] /\ Tree(rest[k + 1])
        /\ \A n \in rest[k + 1] : ~IsPrefix(path, n.path)
        /\ \A n \in rest[k] : ~IsPrefix(path, n.path) /\ ~IsStrictPrefix(n.path, path)
                                => n \in rest[k + 1]
        /\ \A n \in rest[k + 1] : (\E m \in rest[k] : IsStrictPrefix(n.path, m.path))
                                    => \E m \in rest[k + 1] : IsStrictPrefix(n.path, m.path)
    BY <2>2, <2>3, DeletedAt
  <2>5. Taken(k + 1)
    BY <2>1, <2>2, <2>4 DEF path
  <2>6. Spared(k + 1)
    BY <2>1, <2>2, <2>4 DEF path
  <2>7. Filled(k + 1)
    BY <2>2, <2>4
  <2> QED BY <2>4, <2>5, <2>6, <2>7
<1>5. N \in S
  <2> HIDE DEF S
  <2> QED BY <1>2, <1>3, <1>4, NatSets
<1> QED BY <1>1, <1>2, <1>5 DEF N

\* Nothing a desk replies at a path the farmer filled is kept, all that is
\* neither there nor above it is, and no object is left of which only such paths
\* were echoed (without_farmer_values).
THEOREM FormsKeepNothingTyped == FormsSpec => []TypedValuesAreNotKept
<1>1. FormsInv => TypedValuesAreNotKept
  <2> SUFFICES ASSUME FormsInv, kept # None, NEW schema \in ServedBy(submission.context)
               PROVE
      LET typed == {f.path : f \in ToSet(FarmerFields(schema))}
          Typed(n) == \E p \in typed : IsPrefix(p, n.path)
          Above(n) == \E p \in typed : IsStrictPrefix(n.path, p)
      IN  /\ \A n \in kept : ~Typed(n)
          /\ \A n \in reply : ~Typed(n) /\ ~Above(n) => n \in kept
          /\ \A n \in kept : (\E m \in reply : IsStrictPrefix(n.path, m.path)) =>
               \E m \in kept : IsStrictPrefix(n.path, m.path)
    BY DEF TypedValuesAreNotKept
  <2>1. registry # None /\ KeptInv
    BY DEF FormsInv
  <2>2. /\ \A s, t \in ServedBy(submission.context) : s = t
        /\ WellFormed(schema)
    BY <2>1, OneForm
  <2> DEFINE fields == FarmerFields(schema)
  <2>3. reply \in Replies /\ kept = Without(reply, fields)
    BY <2>1, <2>2 DEF KeptInv
  <2>4. fields \in Seq(PackField)
    BY <2>2, FarmersAre
  <2>5. Tree(reply)
    BY <2>3, FormsAssumption DEF FormsAssumption
  <2> HIDE DEF fields
  <2>6. /\ \A n \in kept : \A i \in DOMAIN fields : ~IsPrefix(fields[i].path, n.path)
        /\ \A n \in reply :
             (\A i \in DOMAIN fields : /\ ~IsPrefix(fields[i].path, n.path)
                                       /\ ~IsStrictPrefix(n.path, fields[i].path))
             => n \in kept
        /\ \A n \in kept : (\E m \in reply : IsStrictPrefix(n.path, m.path))
                             => \E m \in kept : IsStrictPrefix(n.path, m.path)
    BY <2>3, <2>4, <2>5, WithoutIs
  <2>7. \A p : p \in {f.path : f \in ToSet(fields)} <=> \E i \in DOMAIN fields : p = fields[i].path
    BY DEF ToSet
  <2> QED BY <2>6, <2>7 DEF fields
<1> QED BY <1>1, FormsInvariance, PTL
====
