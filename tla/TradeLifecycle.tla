---------------------------- MODULE TradeLifecycle ----------------------------
(***************************************************************************)
(* What live_trades promises its readers: every position is one row, first *)
(* open and then closed for good, and a token has one open row at most.    *)
(***************************************************************************)
EXTENDS Integers

CONSTANTS
  Tokens,   \* the tokens of one cell
  Entries   \* the entry timestamps of positions

VARIABLE trades   \* token -> entry -> the state of that position's row

Init == trades = [t \in Tokens |-> [e \in Entries |-> "absent"]]

Open(t, e) ==
  /\ trades[t][e] = "absent"
  /\ \A f \in Entries : trades[t][f] # "open"
  /\ trades' = [trades EXCEPT ![t][e] = "open"]

Close(t, e) ==
  /\ trades[t][e] = "open"
  /\ trades' = [trades EXCEPT ![t][e] = "closed"]

Next == \E t \in Tokens, e \in Entries : Open(t, e) \/ Close(t, e)

Spec == Init /\ [][Next]_trades
==============================================================================
