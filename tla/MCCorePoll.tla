----------------------------- MODULE MCCorePoll -----------------------------
(***************************************************************************)
(* Two users with four voice credits and two options; the messages cover   *)
(* what processMessage tells apart, a change of key in both orders, a      *)
(* replaced vote and a vote that is too dear.                              *)
(***************************************************************************)
EXTENDS CorePoll

Leaf(key, inTime) == [pubKey |-> key, voiceCreditBalance |-> 4, inTime |-> inTime]

Vote(index, signer, newKey, option, weight, nonce) ==
  [msgType |-> 1, stateIndex |-> index, newPubKey |-> newKey, voteOptionIndex |-> option,
   newVoteWeight |-> weight, nonce |-> nonce, signer |-> signer]

Topup(index, amount) == [msgType |-> 2, stateIndex |-> index, amount |-> amount]

MCMessages ==
  {Vote(1, "a", "a", 0, 1, 1), Vote(1, "a", "b", 0, 2, 1), Vote(1, "b", "b", 0, 1, 2),
   Vote(2, "a", "a", 0, 2, 1), Vote(1, "a", "a", 0, 3, 1), Topup(1, 5), Topup(3, 1)}

MCFewMessages == {Vote(1, "a", "a", 0, 1, 1)}

MCLinearMessages ==
  {Vote(1, "a", "a", 0, 3, 1), Vote(1, "a", "a", 0, 1, 2), Vote(1, "a", "a", 1, 5, 2),
   Vote(2, "a", "a", 0, 2, 1), Vote(1, "a", "a", 2, 1, 1), Topup(1, 1)}

Election(polls, leaves, messages, n, qv) ==
  [polls |-> polls, leaves |-> leaves, messages |-> messages, maxMessages |-> n, qv |-> qv]

Early == Leaf("a", TRUE)
Late == Leaf("b", FALSE)

MCTwoPolls == {Election({0, 1}, {Early}, MCFewMessages, 3, TRUE)}

MCElections ==
  MCTwoPolls \cup {Election({0}, {Early}, MCMessages, 4, TRUE),
                   Election({0}, {Early, Late}, MCLinearMessages, 4, FALSE)}
=============================================================================
