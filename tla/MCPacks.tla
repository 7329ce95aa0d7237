------------------------------- MODULE MCPacks -------------------------------
\* The schema packs from the fetch to what is sent because of them: a behaviour
\* is a folder that workers boot on, or a form and its filing, or a select.
EXTENDS MCSchemaPacks, MCForms, MCSelecting

PacksIdle == /\ dir = [p \in Packs |-> Gone] /\ left = {} /\ boots = MaxBoots
             /\ at = [w \in Workers |-> "off"] /\ alone = [w \in Workers |-> FALSE]
             /\ staged = [w \in Workers |-> NoPack] /\ boot = [w \in Workers |-> NewBoot]
FormsIdle == /\ folder = <<>> /\ submission = None /\ registry = None /\ checked = None
             /\ desk = None /\ body = None /\ reply = None /\ kept = None
SelectIdle == offer = Null /\ args = Null /\ here = FALSE /\ verdict = "none" /\ sent = Null

PacksInit == \/ Init /\ FormsIdle /\ SelectIdle
             \/ PacksIdle /\ FormsInit /\ SelectIdle
             \/ PacksIdle /\ FormsIdle /\ SelectingInit
PacksNext == \/ Next /\ UNCHANGED <<fvars, svars>>
             \/ submission # None /\ FormsNext /\ UNCHANGED <<vars, svars>>
             \/ offer # Null /\ SelectingNext /\ UNCHANGED <<vars, fvars>>
PacksSpec == PacksInit /\ [][PacksNext]_<<vars, fvars, svars>>
=============================================================================
