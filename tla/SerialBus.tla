------------------------------ MODULE SerialBus ------------------------------
(* What the Modbus master promises its callers: transfers of registers take *)
(* the bus one at a time, each of them ends, and its end is the only thing  *)
(* that changes what its register reports, and no other register's report.  *)
CONSTANTS Registers, NoReg

VARIABLES owner,   \* the register whose transfer is under way, or NoReg
          outcome  \* what each register's last finished transfer came to

Outcomes == {"none", "short", "whole"}

Init == owner = NoReg /\ outcome = [r \in Registers |-> "none"]

Begin(r) ==
  /\ owner = NoReg
  /\ owner' = r
  /\ UNCHANGED outcome

Finish ==
  /\ owner # NoReg
  /\ owner' = NoReg
  /\ \E o \in Outcomes \ {"none"} : outcome' = [outcome EXCEPT ![owner] = o]

Next == Finish \/ \E r \in Registers : Begin(r)

Spec == Init /\ [][Next]_<<owner, outcome>> /\ WF_<<owner, outcome>>(Finish)
=============================================================================
