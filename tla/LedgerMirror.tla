---------------------------- MODULE LedgerMirror ----------------------------
(***************************************************************************)
(* What an indexer of on-chain ownership promises, apart from how it gets  *)
(* there: its view is always the contract's state at the end of one block, *)
(* that block is final, and the view only moves forward until the indexer  *)
(* is restarted from nothing.                                              *)
(***************************************************************************)
EXTENDS Integers, Sequences

CONSTANTS Tokens, Holders, Nobody

VARIABLES ledger,    \* ledger[b]: who holds every token after block b
          settled,   \* the highest block that cannot be reverted
          view,      \* the indexer's belief: a token's holder, or Nobody
          position   \* the block the view is of; 0 before the first one

mirrorVars == <<ledger, settled, view, position>>

State == [Tokens -> Holders \cup {Nobody}]
Genesis == [t \in Tokens |-> Nobody]
After(b) == IF b = 0 THEN Genesis ELSE ledger[b]

Init == /\ ledger = <<>>
        /\ settled = 0
        /\ view = Genesis
        /\ position = 0

Grow == /\ \E s \in State : ledger' = Append(ledger, s)
        /\ UNCHANGED <<settled, view, position>>

Settle == /\ \E b \in (settled + 1)..Len(ledger) : settled' = b
          /\ UNCHANGED <<ledger, view, position>>

Sync == /\ \E b \in (position + 1)..settled : /\ position' = b
                                              /\ view' = After(b)
        /\ UNCHANGED <<ledger, settled>>

Restart == /\ view' = Genesis
           /\ position' = 0
           /\ UNCHANGED <<ledger, settled>>

Next == Grow \/ Settle \/ Sync \/ Restart

Spec == Init /\ [][Next]_mirrorVars
=============================================================================
