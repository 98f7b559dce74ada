------------------------------- MODULE Ledger -------------------------------
(***************************************************************************)
(* What the checkpoint database promises, with tables, columns and SQL     *)
(* left out: for every guild of every run a finding that only gets         *)
(* stronger, and a body of evidence that only grows and stands behind the  *)
(* strongest finding.                                                      *)
(***************************************************************************)
CONSTANTS RunIDs, GuildKeys, Items

Findings == {"absent", "nothing", "candidate", "confirmed"}

\* AtLeast[f] is the set of findings as strong as f.
AtLeast(f) ==
  CASE f = "absent"    -> Findings
    [] f = "nothing"   -> Findings \ {"absent"}
    [] f = "candidate" -> {"candidate", "confirmed"}
    [] f = "confirmed" -> {"confirmed"}

VARIABLES
  phase,     \* of each run: none, open or closed
  finding,   \* by run and guild
  evidence   \* by run and guild, a set of items

vars == <<phase, finding, evidence>>

Init ==
  /\ phase = [r \in RunIDs |-> "none"]
  /\ finding = [r \in RunIDs |-> [g \in GuildKeys |-> "absent"]]
  /\ evidence = [r \in RunIDs |-> [g \in GuildKeys |-> {}]]

Open(r) ==
  /\ phase[r] = "none"
  /\ phase' = [phase EXCEPT ![r] = "open"]
  /\ UNCHANGED <<finding, evidence>>

Close(r) ==
  /\ phase[r] = "open"
  /\ phase' = [phase EXCEPT ![r] = "closed"]
  /\ UNCHANGED <<finding, evidence>>

Checkpoint(r, g) ==
  /\ phase[r] # "none"
  /\ \E f \in AtLeast(finding[r][g]) \ {"absent"}, new \in SUBSET Items :
       /\ finding' = [finding EXCEPT ![r][g] = f]
       /\ evidence' = [evidence EXCEPT ![r][g] = @ \cup new]
       /\ f = "confirmed" => evidence[r][g]' # {}
  /\ UNCHANGED phase

Next ==
  \/ \E r \in RunIDs : Open(r) \/ Close(r)
  \/ \E r \in RunIDs, g \in GuildKeys : Checkpoint(r, g)

Spec == Init /\ [][Next]_vars
=============================================================================
