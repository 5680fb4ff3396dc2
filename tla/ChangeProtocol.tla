---------------------------- MODULE ChangeProtocol ----------------------------
(***************************************************************************)
(* What a caller of ConfigExecutor.apply may rely on, whatever the device  *)
(* does: a change is refused before anything is sent, or it is made and    *)
(* then either kept and saved or undone, never both; the startup           *)
(* configuration is written at most once, by a change that is kept; and    *)
(* the verdict tells which of these happened.                              *)
(***************************************************************************)

CONSTANT Config   \* the configurations a device may have

VARIABLES
  phase,    \* how far the current change is
  verdict,  \* its outcome, once closed
  startup   \* the configuration the device would reload with

protocol == <<phase, verdict, startup>>

Init == /\ phase = "idle" /\ verdict = "none"
        /\ startup \in Config

CloseWith(verdicts) == /\ phase' = "closed"
                       /\ \E v \in verdicts : verdict' = v

Ask == /\ phase \in {"idle", "closed"}
       /\ phase' = "asked" /\ verdict' = "none"
       /\ UNCHANGED startup

Refuse == /\ phase = "asked"
          /\ CloseWith({"REJECTED", "DRY_RUN"})
          /\ UNCHANGED startup

Change == /\ phase = "asked" /\ phase' = "changing"
          /\ UNCHANGED <<verdict, startup>>

Keep == /\ phase = "changing" /\ phase' = "saving"
        /\ UNCHANGED <<verdict, startup>>

(* Nothing was applied: there is nothing to undo.                          *)
GiveUp == /\ phase = "changing"
          /\ CloseWith({"ROLLED_BACK"})
          /\ UNCHANGED startup

Undo == /\ phase = "changing" /\ phase' = "undoing"
        /\ UNCHANGED <<verdict, startup>>

CloseUndone == /\ phase = "undoing"
               /\ CloseWith({"ROLLED_BACK", "ROLLBACK_FAILED"})
               /\ UNCHANGED startup

CloseKept == /\ phase = "saving"
             /\ CloseWith({"APPLIED", "PERSIST_FAILED"})
             /\ startup' \in Config

Next == \/ Ask \/ Refuse \/ Change \/ Keep \/ GiveUp \/ Undo
        \/ CloseUndone \/ CloseKept

Spec == Init /\ [][Next]_protocol
=============================================================================
