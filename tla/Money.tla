--------------------------------- MODULE Money ---------------------------------
(***************************************************************************)
(* Amounts in atoms: fees in basis points (packages/core: money.ts) and    *)
(* what a ledger journal must look like (packages/core: ledger.ts).        *)
(***************************************************************************)
EXTENDS Integers, FiniteSetsExt

basisPointsCeil(amount, basisPoints) ==
  (amount * basisPoints + 9999) \div 10000

\* The entries of a journal, each with an account.
Debit(account, atoms) == [account |-> account, debit |-> atoms, credit |-> 0]
Credit(account, atoms) == [account |-> account, debit |-> 0, credit |-> atoms]

\* assertBalancedPostings: at least two entries, each with one positive
\* amount, and as much debited as credited.
isBalanced(postings) ==
  /\ Cardinality(postings) >= 2
  /\ \A p \in postings : /\ p.debit >= 0 /\ p.credit >= 0
                         /\ (p.debit > 0) # (p.credit > 0)
  /\ SumFunction([p \in postings |-> p.debit - p.credit]) = 0

\* The balances after a journal, of accounts that credits increase.
posted(balances, postings) ==
  [a \in DOMAIN balances |->
     balances[a] + SumFunction([p \in {q \in postings : q.account = a} |->
                                  p.credit - p.debit])]
=============================================================================
