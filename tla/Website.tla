------------------------------- MODULE Website -------------------------------
(***************************************************************************)
(* website/script.js in one browser, against the server of FlaskServer.    *)
(* Calls of fetch() run side by side: populateStatusSection() every five   *)
(* seconds, populateHistoryTable() and applySettings() when a button is    *)
(* used.  A settings message is its number, in the order in which they     *)
(* were applied; applySettings() has checked its value's range.            *)
(***************************************************************************)
EXTENDS FlaskServer

VARIABLES
  shown,     \* the status section: nothing, "N/A", undefined fields or a status
  table,     \* the rows of the history table
  applies,   \* settings applied so far
  confirmed, \* history: the settings answered with OK
  before,    \* history: those confirmed when each one was applied
  overlapped \* history: the table was last emptied while the answer to an
             \* earlier refresh was outstanding

pageVars == <<shown, table, applies, confirmed, before, overlapped>>
vars == <<serverVars, pageVars>>

Init ==
  /\ ServerInit
  /\ shown = [kind |-> "nothing", status |-> <<>>]
  /\ table = <<>>
  /\ applies = 0
  /\ confirmed = {} /\ before = [n \in 1..world.applies |-> {}]
  /\ overlapped = FALSE

(* Bound: the history tab is used where no settings are applied.           *)
History == world.applies = 0

HistoryAsked == \E i \in Slots : calls[i].op = "history"

-----------------------------------------------------------------------------
(* Mutated forms of the definitions below; no specification uses them.     *)
RefreshHistoryUncleared ==
  /\ History
  /\ UNCHANGED table
  /\ \E i \in Slots :
       /\ calls[i] = FreeSlot
       /\ calls' = [calls EXCEPT ![i] = [FreeSlot EXCEPT !.op = "history", !.at = "server"]]
  /\ UNCHANGED <<mqttVars, threadVars, db, ctrlVars, drops, failures, shown,
                 applies, confirmed, before>>
  /\ overlapped' = HistoryAsked

-----------------------------------------------------------------------------
(* fetch(): a call takes a free slot.                                      *)
Fetch(op, nr) ==
  /\ \E i \in Slots :
       /\ calls[i] = FreeSlot
       /\ calls' = [calls EXCEPT ![i] = [op |-> op, at |-> "server", nr |-> nr, body |-> <<>>]]
  /\ UNCHANGED <<mqttVars, threadVars, db, ctrlVars, drops, failures>>

Answered(i, op) ==
  /\ calls[i].op = op /\ calls[i].at = "answered"
  /\ calls' = [calls EXCEPT ![i] = FreeSlot]
  /\ UNCHANGED <<mqttVars, threadVars, db, ctrlVars, drops, failures>>

RefreshStatus == Fetch("status", 0) /\ UNCHANGED pageVars

(* An answer with code 500 has none of the fields: the mode reads Manual.  *)
ShowStatus(i) ==
  /\ Answered(i, "status")
  /\ shown' = [kind |-> IF calls[i].body = ServerError THEN "undefined" ELSE "status",
               status |-> calls[i].body]
  /\ UNCHANGED <<table, applies, confirmed, before, overlapped>>

(* The table is emptied when the call is made, not when it is answered.    *)
RefreshHistory ==
  /\ History
  /\ Fetch("history", 0)
  /\ table' = <<>> /\ overlapped' = HistoryAsked
  /\ UNCHANGED <<shown, applies, confirmed, before>>

ShowHistory(i) ==
  /\ Answered(i, "history")
  /\ table' = table \o calls[i].body
  /\ UNCHANGED <<shown, applies, confirmed, before, overlapped>>

ApplySettings ==
  /\ applies < world.applies /\ applies' = applies + 1
  /\ Fetch("apply", applies')
  /\ before' = [before EXCEPT ![applies'] = confirmed]
  /\ UNCHANGED <<shown, table, confirmed, overlapped>>

SettingsConfirmed(i) ==
  /\ Answered(i, "apply")
  /\ confirmed' = confirmed \cup {calls[i].nr}
  /\ UNCHANGED <<shown, table, applies, before, overlapped>>

(* The request or its answer is lost.                                      *)
FetchFails(i) ==
  /\ calls[i] # FreeSlot
  /\ calls' = [calls EXCEPT ![i] = FreeSlot]
  /\ Fail
  /\ shown' = IF calls[i].op = "status" THEN [kind |-> "N/A", status |-> <<>>]
                                        ELSE shown
  /\ UNCHANGED <<mqttVars, threadVars, db, ctrlVars, drops, table, applies,
                 confirmed, before, overlapped>>

-----------------------------------------------------------------------------
Show(i) == ShowStatus(i) \/ ShowHistory(i) \/ SettingsConfirmed(i)

PageNext ==
  \/ RefreshStatus \/ RefreshHistory \/ ApplySettings
  \/ \E i \in Slots : Show(i) \/ FetchFails(i)

Next == (ServerNext /\ UNCHANGED pageVars) \/ PageNext

Spec == Init /\ [][Next]_vars

(* Threads run, the timer of the page fires, and what is sent arrives      *)
(* sooner or later; nothing says when, or in which order.  The number of   *)
(* slots is only a bound, so other calls cannot keep a poll out for ever.  *)
Fairness ==
  /\ SF_vars(RefreshStatus)
  /\ WF_vars(Handler /\ UNCHANGED pageVars)
  /\ WF_vars(Transmit /\ UNCHANGED pageVars)
  /\ WF_vars(HandleConnect /\ UNCHANGED pageVars)
  /\ WF_vars(ControllerTakes /\ UNCHANGED pageVars)
  /\ \A i \in Slots : WF_vars(Http(i) /\ UNCHANGED pageVars) /\ WF_vars(Show(i))

FairSpec == Spec /\ Fairness

-----------------------------------------------------------------------------
(* When statuses, settings and failures stop, the page shows the last      *)
(* reading stored, although answers to its polls may overtake one another. *)
PageCatchesUp ==
  <>[](db # <<>> => shown.kind = "status" /\ shown.status = <<Last(db)>>)

(* Settings the operator applied after others were confirmed are not       *)
(* undone by those: when all is quiet the controller never holds settings  *)
(* that were confirmed before the operator applied published ones, even    *)
(* when the connection was lost and settings were sent twice.              *)
LastSettingsStand ==
  <>[](\A n \in published : ctrl \notin before[n])

(* Unless refreshes overlapped, the history table shows the newest reading *)
(* first and none twice, whatever was stored, failed or answered late      *)
(* while it was filled.                                                    *)
HistoryNewestFirst ==
  ~overlapped => \A i, j \in DOMAIN table : i < j => table[j].nr < table[i].nr
=============================================================================
