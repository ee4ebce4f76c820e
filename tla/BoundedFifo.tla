---------------------------- MODULE BoundedFifo ----------------------------
(***************************************************************************)
(* What the bounded persistence queue promises its two callers, with every *)
(* operation atomic: a first-in first-out queue that refuses a push exactly*)
(* when it holds Limit values and a pop exactly when it holds none.        *)
(***************************************************************************)
EXTENDS Naturals, Sequences

CONSTANTS Values,  \* what callers push
          Limit,   \* most values held at once (usable_capacity)
          NoValue  \* "no value popped yet"

VARIABLES contents,    \* the queued values, oldest first
          pushResult,  \* what the last completed try_push returned
          popResult    \* what the last completed try_pop returned
                       \* (the value, "empty", or NoValue before the first)

fifoVars == <<contents, pushResult, popResult>>

FifoInit ==
  /\ contents = <<>>
  /\ pushResult = "none"
  /\ popResult = NoValue

\* A push that succeeds appends its value ...
PushAccepted(v) ==
  /\ Len(contents) < Limit
  /\ contents' = Append(contents, v)
  /\ pushResult' = "ok"
  /\ UNCHANGED popResult

\* ... and only a full queue refuses one.
PushRefused ==
  /\ Len(contents) = Limit
  /\ pushResult' = "full"
  /\ UNCHANGED <<contents, popResult>>

PopTaken ==
  /\ contents # <<>>
  /\ popResult' = Head(contents)
  /\ contents' = Tail(contents)
  /\ UNCHANGED pushResult

PopRefused ==
  /\ contents = <<>>
  /\ popResult' = "empty"
  /\ UNCHANGED <<contents, pushResult>>

FifoNext ==
  \/ \E v \in Values : PushAccepted(v)
  \/ PushRefused
  \/ PopTaken
  \/ PopRefused

FifoSpec == FifoInit /\ [][FifoNext]_fifoVars
=============================================================================
