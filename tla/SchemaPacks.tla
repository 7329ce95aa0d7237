----------------------------- MODULE SchemaPacks -----------------------------
(***************************************************************************)
(* How a worker boots on the schema packs: what is fetched into the shared  *)
(* folder when it holds none (config/schema_pack_fetch.py), how the folder  *)
(* is read back (adapters/schema_packs), the two indexes and the planner's  *)
(* schemas built from the packs (core/provider_discovery), and the forms.   *)
(*                                                                          *)
(* Workers boot beside one another on one folder, and one may be killed at  *)
(* any step. A pack is the files of its one version directory; of these the *)
(* optional ones nobody reads are left out, and an example file stands for  *)
(* all of them. What a file says is whether the pack is well formed. The    *)
(* published ref and the network are external.                              *)
(***************************************************************************)
EXTENDS Integers, FiniteSets, SequencesExt

CONSTANTS
  Order,     \* the packs, in the order the fetch asks for them (PACKS)
  ApiPacks,  \* the ones forms are built from
  NoEntry,   \* the ones no capability can be read from
  NoContext, \* the ones that name no @context
  NoFilters, \* the ones that say nothing of what a select may filter by
  Breaks,    \* the ones whose defect is none of PACK_DEFECTS
  Workers,
  MaxBoots,  \* bound: the boots of all workers together
  Gone       \* model value: a version directory that does not exist

Packs     == ToSet(Order)
Essential == {"attributes", "profile"}  \* _ESSENTIAL_FILES
FileOrder == <<"attributes", "profile", "examples">>
Files     == ToSet(FileOrder)

ASSUME PacksAssumption ==
  /\ Order \in Seq(Packs) /\ MaxBoots \in Nat
  /\ \A S \in {ApiPacks, NoEntry, NoContext, NoFilters, Breaks} : S \subseteq Packs
  /\ \A i, j \in DOMAIN Order : Order[i] = Order[j] => i = j
  /\ \A files \in SUBSET (Files \cup {"inside"}) : files # Gone

VARIABLES
  dir,    \* the version directory of each pack: its files, or Gone
  left,   \* the temporary folders of workers that were killed
  at,     \* where each worker is
  staged, \* the pack a worker has in hand, and the files it has written of it
  boot,   \* what a worker's boot has come to, see NewBoot
  alone,  \* has a worker had the folder to itself since it began?
  boots   \* the boots so far

vars == <<dir, left, at, staged, boot, alone, boots>>

Walks == {"refreshing", "loading", "offering"}
Over  == {"off", "up", "refused", "aborted"}
NoPack == [pack |-> Gone, files |-> {}, written |-> {}]

\* next: the pack it fetches next, or the folder it reads next; got: the packs
\* it fetched; read: what the walk it is on has read; index: the packs its
\* capability index routes to; known: those of its schema context index;
\* skipped: those left out of both; schemas: those its planner checks a select
\* against; forms: those its forms are built from.
NewBoot == [next |-> 1, got |-> {}, read |-> {}, index |-> {}, known |-> {},
            skipped |-> {}, schemas |-> {}, forms |-> {}]

Init ==
  /\ dir = [p \in Packs |-> Gone] /\ left = {} /\ boots = 0
  /\ at = [w \in Workers |-> "off"] /\ alone = [w \in Workers |-> FALSE]
  /\ staged = [w \in Workers |-> NoPack] /\ boot = [w \in Workers |-> NewBoot]

Go(w, stage) == at' = [at EXCEPT ![w] = stage]

-----------------------------------------------------------------------------
\* A boot (build_runner_with_lifecycle), and what may end one.

Begin(w) ==
  /\ at[w] \in Over /\ boots < MaxBoots /\ boots' = boots + 1
  /\ Go(w, "checking")
  /\ alone' = [v \in Workers |-> v = w /\ \A u \in Workers \ {w} : at[u] \in Over]
  /\ boot' = [boot EXCEPT ![w] = NewBoot]
  /\ UNCHANGED <<dir, left, staged>>

\* A worker is killed: what it was writing stays behind.
Crash(w) ==
  /\ at[w] \notin Over
  /\ Go(w, "off")
  /\ left' = IF staged[w].written = {} THEN left
             ELSE left \cup {[pack |-> staged[w].pack, files |-> staged[w].written]}
  /\ staged' = [staged EXCEPT ![w] = NoPack]
  /\ UNCHANGED <<dir, boot, alone, boots>>

-----------------------------------------------------------------------------
\* The fetch.

\* The folders beside the packs' own: they look like packs while they last.
Temporary ==
  left \cup {[pack |-> staged[v].pack, files |-> staged[v].written] : v \in Workers}

\* What stands in the version directory of a pack, nothing when there is none.
In(p) == IF dir[p] = Gone THEN {} ELSE dir[p]

\* has_packs: any folder with a version directory that holds the marker.
HasPacks ==
  \/ \E p \in Packs : "attributes" \in In(p)
  \/ \E t \in Temporary : "attributes" \in t.files

\* _ensure_schema_packs.
EnsurePacks(w) ==
  /\ at[w] = "checking"
  /\ Go(w, IF HasPacks THEN "refreshing" ELSE "fetching")
  /\ UNCHANGED <<dir, left, staged, boot, alone, boots>>

\* _download_pack: a file that cannot be got reads as one that is not there,
\* and only the essential ones decide whether the pack is.
Download(w) ==
  /\ at[w] = "fetching" /\ boot[w].next <= Len(Order)
  /\ \E files \in {{}} \cup {Essential \cup S : S \in SUBSET (Files \ Essential)} :
       IF files = {}
       THEN /\ boot' = [boot EXCEPT ![w].next = @ + 1]
            /\ UNCHANGED <<at, staged>>
       ELSE /\ staged' = [staged EXCEPT ![w] =
                            [pack |-> Order[boot[w].next], files |-> files, written |-> {}]]
            /\ Go(w, "staging") /\ UNCHANGED boot
  /\ UNCHANGED <<dir, left, alone, boots>>

Unwritten(w) == staged[w].files \ staged[w].written

\* The files are written in the order they were got in.
NextFile(w) ==
  {FileOrder[i] : i \in {k \in DOMAIN FileOrder :
     FileOrder[k] \in Unwritten(w) /\ \A j \in 1 .. k - 1 : FileOrder[j] \notin Unwritten(w)}}

\* Mutant of StageFile: the files are written into the version directory.
StageInPlace(w) ==
  /\ at[w] = "staging"
  /\ LET p == staged[w].pack
     IN  \/ /\ Unwritten(w) = {} /\ Go(w, "moving")
            /\ UNCHANGED <<dir, staged>>
         \/ \E f \in NextFile(w) :
              /\ dir' = [dir EXCEPT ![p] = In(p) \cup {f}]
              /\ staged' = [staged EXCEPT ![w].written = @ \cup {f}]
              /\ UNCHANGED at
  /\ UNCHANGED <<left, boot, alone, boots>>

\* _publish: one file after another into the temporary folder.
StageFile(w) ==
  /\ at[w] = "staging"
  /\ \/ /\ Unwritten(w) = {} /\ UNCHANGED staged
        /\ Go(w, IF dir[staged[w].pack] = Gone THEN "moving" ELSE "clearing")
     \/ \E f \in NextFile(w) :
          /\ staged' = [staged EXCEPT ![w].written = @ \cup {f}]
          /\ UNCHANGED at
  /\ UNCHANGED <<dir, left, boot, alone, boots>>

Abort(w) ==
  /\ Go(w, "aborted")
  /\ staged' = [staged EXCEPT ![w] = NoPack]
  /\ UNCHANGED <<dir, left, boot, alone, boots>>

\* _publish: shutil.rmtree of the version directory that is there. What another
\* worker removed first is passed over; a directory that is no longer there,
\* no longer empty, or no longer the one that was opened ("stale") is an
\* OSError nobody catches.
Clear(w) ==
  /\ at[w] = "clearing"
  /\ LET p == staged[w].pack
     IN  \E f \in In(p) : dir' = [dir EXCEPT ![p] = @ \ {f}]
  /\ UNCHANGED <<left, at, staged, boot, alone, boots>>

Cleared(w) ==
  /\ at[w] = "clearing" /\ dir[staged[w].pack] = {}
  /\ dir' = [dir EXCEPT ![staged[w].pack] = Gone]
  /\ \E S \in SUBSET {v \in Workers \ {w} :
                        at[v] = "clearing" /\ staged[v].pack = staged[w].pack} :
       at' = [v \in Workers |-> IF v = w THEN "moving"
                                ELSE IF v \in S THEN "stale" ELSE at[v]]
  /\ UNCHANGED <<left, staged, boot, alone, boots>>

ClearFails(w) ==
  /\ \/ at[w] = "stale"
     \/ at[w] = "clearing" /\ dir[staged[w].pack] = Gone
     \/ at[w] = "clearing" /\ dir[staged[w].pack] = {"inside"}
  /\ Abort(w)

\* _publish: shutil.move is a rename when nothing is there. A directory another
\* worker has put there meanwhile is moved into, or fails the move.
Move(w) ==
  /\ at[w] = "moving"
  /\ LET p == staged[w].pack
     IN  /\ "inside" \notin In(p)
         /\ dir' = [dir EXCEPT ![p] = IF @ = Gone THEN staged[w].files
                                      ELSE @ \cup {"inside"}]
         /\ boot' = [boot EXCEPT ![w].got = @ \cup {p}, ![w].next = @ + 1]
  /\ staged' = [staged EXCEPT ![w] = NoPack] /\ Go(w, "fetching")
  /\ UNCHANGED <<left, alone, boots>>

MoveFails(w) ==
  /\ at[w] = "moving" /\ dir[staged[w].pack] # Gone
  /\ Abort(w)

\* fetch_packs returns. One that found nothing is logged, not raised.
Fetched(w) ==
  /\ at[w] = "fetching" /\ boot[w].next > Len(Order)
  /\ boot' = [boot EXCEPT ![w].next = 1] /\ Go(w, "refreshing")
  /\ UNCHANGED <<dir, left, staged, alone, boots>>

-----------------------------------------------------------------------------
\* The three walks of the folder (FilesystemSchemaPackSource.fetch_packs): for
\* the indexes, for the planner's schemas, and for the forms.

Pack(p, files, named) ==
  [pack |-> p, examples |-> "examples" \in files, named |-> named]

\* _read_all_packs: a folder without the marker is no pack, one without its
\* profile is reported. The temporary folders are read last.
ReadFolder(w) ==
  /\ at[w] \in Walks /\ boot[w].next <= Len(Order)
  /\ LET p     == Order[boot[w].next]
         files == In(p)
         torn  == at[w] = "refreshing" /\ "attributes" \in files /\ "profile" \notin files
     IN  boot' = [boot EXCEPT
           ![w].next    = @ + 1,
           ![w].read    = IF Essential \subseteq files THEN @ \cup {Pack(p, files, TRUE)} ELSE @,
           ![w].skipped = IF torn THEN @ \cup {p} ELSE @]
  /\ UNCHANGED <<dir, left, at, staged, alone, boots>>

Walked(w) ==
  boot[w].read \cup {Pack(t.pack, t.files, FALSE) :
                  t \in {u \in Temporary : Essential \subseteq u.files}}

\* What a walk came to is kept, and the next one starts over.
EndWalk(w, stage, kept) ==
  /\ Go(w, stage)
  /\ boot' = [boot EXCEPT ![w] = [kept EXCEPT !.next = 1, !.read = {}]]
  /\ UNCHANGED <<dir, left, staged, alone, boots>>

\* A pack keeps its name in its schema, so one read from a temporary folder
\* has neither a type nor an @context.
NamedIn(packs) == {r.pack : r \in {q \in packs : q.named}}
IndexSkips(packs) == NamedIn(packs) \cap NoEntry
ContextSkips(packs) == NamedIn(packs) \cap (NoEntry \cup NoContext)

\* build_capability_index: a catalog pack serves what its examples say.
CapabilityIndex(good) ==
  {r.pack : r \in {q \in good : q.pack \in ApiPacks \/ q.examples}}

\* Mutant of Refresh: each index is built from what it can read itself.
RefreshEachItsOwn(w) ==
  /\ at[w] = "refreshing" /\ boot[w].next > Len(Order)
  /\ LET packs == Walked(w)
         good  == {r \in packs : r.named /\ r.pack \notin IndexSkips(packs)}
         out   == boot[w].skipped \cup ContextSkips(packs)
     IN  IF NamedIn(good) \cap Breaks # {} THEN Abort(w)
         ELSE EndWalk(w, "loading",
                [boot[w] EXCEPT !.index = CapabilityIndex(good),
                                !.known = NamedIn(packs) \ out, !.skipped = out])

\* Mutant of Refresh: a pack that is left out leaves nothing to route to.
RefreshAllOrNothing(w) ==
  /\ at[w] = "refreshing" /\ boot[w].next > Len(Order)
  /\ LET packs == Walked(w)
         bad   == boot[w].skipped \cup IndexSkips(packs) \cup ContextSkips(packs)
         out   == IF bad = {} THEN {} ELSE Packs
         good  == {r \in packs : r.named /\ r.pack \notin out}
     IN  IF NamedIn(good) \cap Breaks # {} THEN Abort(w)
         ELSE EndWalk(w, "loading",
                [boot[w] EXCEPT !.index = CapabilityIndex(good),
                                !.known = NamedIn(good), !.skipped = out])

\* SchemaPackCache.refresh.
Refresh(w) ==
  /\ at[w] = "refreshing" /\ boot[w].next > Len(Order)
  /\ LET packs == Walked(w)
         out   == boot[w].skipped \cup IndexSkips(packs) \cup ContextSkips(packs)
         good  == {r \in packs : r.named /\ r.pack \notin out}
     IN  IF NamedIn(good) \cap Breaks # {} THEN Abort(w)
         ELSE EndWalk(w, "loading",
                [boot[w] EXCEPT !.index = CapabilityIndex(good),
                                !.known = NamedIn(good), !.skipped = out])

\* _planner_schemas: of the packs no index left out, a catalog's filters.
PlannerSchemas(packs, skipped) ==
  NamedIn(packs) \ (skipped \cup ApiPacks \cup NoFilters)

\* _network: the boot is refused when nothing was read, and the planner gets
\* the schemas of the packs this walk read and the indexes kept.
Load(w) ==
  /\ at[w] = "loading" /\ boot[w].next > Len(Order)
  /\ LET packs == Walked(w)
     IN  IF packs = {}
         THEN Go(w, "refused") /\ UNCHANGED <<dir, left, staged, boot, alone, boots>>
         ELSE EndWalk(w, "offering",
                [boot[w] EXCEPT !.schemas = PlannerSchemas(packs, boot[w].skipped)])

\* _boot_forms: a form is read from whatever folder holds its pack.
Offer(w) ==
  /\ at[w] = "offering" /\ boot[w].next > Len(Order)
  /\ EndWalk(w, "up",
       [boot[w] EXCEPT !.forms = {r.pack : r \in Walked(w)} \cap ApiPacks])

Next ==
  \E w \in Workers :
    \/ Begin(w) \/ Crash(w) \/ EnsurePacks(w)
    \/ Download(w) \/ StageFile(w) \/ Clear(w) \/ Cleared(w) \/ ClearFails(w)
    \/ Move(w) \/ MoveFails(w) \/ Fetched(w)
    \/ ReadFolder(w) \/ Refresh(w) \/ Load(w) \/ Offer(w)

Spec == Init /\ [][Next]_vars

-----------------------------------------------------------------------------
\* The properties.

Stages == Walks \cup Over \cup {"checking", "fetching", "staging", "clearing", "stale", "moving"}
ReadPack == [pack : Packs, examples : BOOLEAN, named : BOOLEAN]
StagedType == [pack : Packs \cup {Gone}, files : SUBSET Files, written : SUBSET Files]
BootType ==
  [next : Nat \ {0}, got : SUBSET Packs, read : SUBSET ReadPack, index : SUBSET Packs,
   known : SUBSET Packs, skipped : SUBSET Packs, schemas : SUBSET Packs, forms : SUBSET Packs]

\* Every variable has its type: "inside" is a directory moved into another.
PacksTypeOK ==
  /\ dir \in [Packs -> {Gone} \cup SUBSET (Files \cup {"inside"})]
  /\ left \subseteq [pack : Packs, files : SUBSET Files]
  /\ at \in [Workers -> Stages] /\ staged \in [Workers -> StagedType]
  /\ boot \in [Workers -> BootType] /\ alone \in [Workers -> BOOLEAN] /\ boots \in Nat

\* A version directory that was not there appears whole, whoever else is
\* booting and whoever was killed (_publish: a half-written pack reads as one
\* that was never published).
AppearsWhole ==
  [][\A p \in Packs : dir[p] = Gone /\ dir'[p] # Gone => Essential \subseteq dir'[p]]_dir

\* What a worker routes to it can always build a request for: no type is in
\* its capability index without an @context, whatever part of the folder
\* another worker was replacing when it was read (SchemaPackCache.refresh).
IndexesAgree == \A w \in Workers : boot[w].index \subseteq boot[w].known

\* What the folder lets a worker route to.
Routable ==
  {p \in Packs \ (NoEntry \cup NoContext) :
     Essential \subseteq In(p) /\ (p \in ApiPacks \/ "examples" \in In(p))}

\* A worker that had the folder to itself comes up on all that is in it, and
\* has there all that it fetched, and can call each: with checked filters, or
\* as a form, unless its pack lists no filters; it is refused only with nothing there.
AloneServesAll ==
  \A w \in Workers : alone[w] =>
    /\ at[w] = "up" => /\ boot[w].index = Routable
                       /\ \A p \in boot[w].got : Essential \subseteq In(p)
                       /\ boot[w].index \ NoFilters \subseteq boot[w].schemas \cup boot[w].forms
    /\ at[w] = "refused" => boot[w].got = {} /\ Routable = {}

\* The claim of _network that a worker refuses to boot when every turn would
\* come back no_match: one that is up routes to something.
NeverBootsBlind == \A w \in Workers : at[w] = "up" => boot[w].known # {}
=============================================================================
