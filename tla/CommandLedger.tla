---------------------------- MODULE CommandLedger ----------------------------
(***************************************************************************)
(* What the orchestration engine promises to whoever dispatches commands,  *)
(* without queues, transactions, publication or restarts.                  *)
(*                                                                         *)
(* Every command identifier gets at most one final verdict.  An accepted   *)
(* command contributes its whole block of events to the event log, once    *)
(* and contiguously; a rejected command contributes nothing, ever.  An     *)
(* answer given to a caller agrees with the verdict for as long as the log *)
(* lives, however often the same identifier is dispatched again.           *)
(***************************************************************************)
EXTENDS Integers, Sequences

CONSTANTS
  Commands,   \* command identifiers
  Block       \* Block[c]: the events command c stands for

VARIABLES
  log,        \* the events of all accepted commands, in order
  receipts,   \* receipts[c]: the verdict on command c
  replies     \* every settling answer ever given

vars == <<log, receipts, replies>>

NoReceipt == [status |-> "none", sequence |-> 0]

Init ==
  /\ log = << >>
  /\ receipts = [c \in Commands |-> NoReceipt]
  /\ replies = {}

\* The verdict "accepted" and the command's events appear together.
Accept(c) ==
  /\ receipts[c] = NoReceipt
  /\ log' = log \o Block[c]
  /\ receipts' = [receipts EXCEPT
                    ![c] = [status |-> "accepted", sequence |-> Len(log')]]
  /\ UNCHANGED replies

\* A rejection is recorded with the sequence it was decided at.
Reject(c) ==
  /\ receipts[c] = NoReceipt
  /\ \E n \in 0 .. Len(log) :
       receipts' = [receipts EXCEPT
                      ![c] = [status |-> "rejected", sequence |-> n]]
  /\ UNCHANGED <<log, replies>>

\* The answers that settle a command for good.  A storage error or a first
\* refusal settles nothing (a retry may fare better) and leaves no trace here.
Answer(c) ==
  /\ \/ /\ receipts[c].status = "accepted"
        /\ replies' = replies \cup
             {[cmd |-> c, kind |-> "success", sequence |-> receipts[c].sequence]}
     \/ /\ receipts[c].status = "rejected"
        /\ replies' = replies \cup
             {[cmd |-> c, kind |-> "previouslyRejected", sequence |-> 0]}
  /\ UNCHANGED <<log, receipts>>

Next == \E c \in Commands : Accept(c) \/ Reject(c) \/ Answer(c)

Spec == Init /\ [][Next]_vars

=============================================================================
