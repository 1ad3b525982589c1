---------------------------- MODULE VoteHistory -----------------------------
(***************************************************************************)
(* PollOperator with a history variable: under which Poll each response    *)
(* was cast. An object's creation time is a field the model leaves out; the *)
(* history says of a response and of its Poll which of the two came first. *)
(***************************************************************************)
EXTENDS PollOperator

VARIABLE castUnder  \* the uid of the Poll a response was created for, or Nil

\* The uid under which the Poll of this name is stored.
StoredUid(p) == IF PollTruth[p] = Nil THEN Nil ELSE PollTruth[p].uid

HistoryInit == Init /\ castUnder = [r \in Responses |-> Nil]

\* Recorded when a response appears, and forgotten when it goes.
HistoryNext ==
    /\ Next
    /\ castUnder' = [r \in Responses |->
                        IF RespTruth'[r] = Nil THEN Nil
                        ELSE IF RespTruth[r] = Nil
                        THEN StoredUid(RespTruth'[r].spec.pollRef)
                        ELSE castUnder[r]]

HistorySpec == HistoryInit /\ [][HistoryNext]_<<vars, castUnder>>

\* pollresponse_controller.go:74-75 "sets an owner reference on the Poll so the
\* response is garbage-collected when the Poll is deleted": a response cast while
\* a Poll was there is not collected before that Poll is deleted.
CollectedWithItsPoll ==
    [][\A r \in Responses :
          /\ RespTruth[r] # Nil /\ RespTruth'[r] = Nil
          /\ ~RespTruth[r].deleting
          /\ ops' = ops                         \* no user deleted it
          => castUnder[r] = Nil \/ castUnder[r] # StoredUid(RespTruth[r].spec.pollRef)
      ]_<<vars, castUnder>>
=============================================================================
