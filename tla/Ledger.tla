------------------------------- MODULE Ledger -------------------------------
(***************************************************************************)
(* The balance sheet of exchange/core/risk_engine.py as a value, and each  *)
(* mutation of RiskEngine as an operator on that value.  The modules that  *)
(* keep a ledger (RiskEngine itself, the AMM, the order book) build every  *)
(* one of their steps from these operators, so the ledger of a venue is    *)
(* changed exactly the way the engine changes it.                          *)
(*                                                                         *)
(* A lock is known by its owner and a key.  The code finds a lock by       *)
(* (market, lock_type) through Account.lock_for, or by the lock_id an      *)
(* order keeps; a key stands for either.  A lock that reaches zero is      *)
(* removed, so amount 0 is "no such lock"; the AMM and the book make none  *)
(* of zero credits, every price being positive.                            *)
(* Credits are integers in units of the smallest credit quantum.           *)
(***************************************************************************)
EXTENDS Integers, FiniteSets, Functions

Ledgers(A, K) ==
  [available : [A -> Int], frozen : [A -> Int], locks : [A -> [K -> Nat]]]

EmptyLedger(A, K) ==
  [available |-> [a \in A |-> 0],
   frozen    |-> [a \in A |-> 0],
   locks     |-> [a \in A |-> [k \in K |-> 0]]]

-----------------------------------------------------------------------------
(* Guards: the checks that raise before anything is changed.               *)

HasLock(L, a, k) == L.locks[a][k] > 0

CanPay(L, a, x) == L.available[a] >= x

CanDecreaseUnbounded(L, a, k, x) == HasLock(L, a, k)   \* mutant: no amount check
CanDecrease(L, a, k, x) == HasLock(L, a, k) /\ x <= L.locks[a][k]

-----------------------------------------------------------------------------
(* The mutations.                                                          *)

Mint(L, a, x) == [L EXCEPT !.available[a] = @ + x]

\* lock and increase_lock move credits the same way; they differ in whether
\* the lock is there before.
Freeze(L, a, k, x) ==
  [L EXCEPT !.available[a] = @ - x, !.frozen[a] = @ + x, !.locks[a][k] = @ + x]

DecreaseLock(L, a, k, x) ==
  [L EXCEPT !.available[a] = @ + x, !.frozen[a] = @ - x, !.locks[a][k] = @ - x]

ReleaseLock(L, a, k) == DecreaseLock(L, a, k, L.locks[a][k])

\* Mutant: frozen falls by the payout, not by the lock.
SettleLockByPayout(L, a, k, payout) ==
  [L EXCEPT !.available[a] = @ + payout, !.frozen[a] = @ - payout, !.locks[a][k] = 0]

\* The payout is the caller's: more or less than the amount that was locked.
SettleLock(L, a, k, payout) ==
  [L EXCEPT !.available[a] = @ + payout,
            !.frozen[a]    = @ - L.locks[a][k],
            !.locks[a][k]  = 0]

\* x goes from one entry to another, or nowhere when they are the same.
Move(balance, a, b, x) ==
  LET debited == [balance EXCEPT ![a] = @ - x]
  IN  [debited EXCEPT ![b] = @ + x]

MoveLocked(locks, a, k, b, j, x) ==
  LET debited == [locks EXCEPT ![a][k] = @ - x]
  IN  [debited EXCEPT ![b][j] = @ + x]

\* Mutant: both balances are read before either is written.
TransferAvailableStale(L, a, b, x) ==
  [L EXCEPT !.available[a] = L.available[a] - x, !.available[b] = L.available[b] + x]

TransferAvailable(L, a, b, x) ==
  [L EXCEPT !.available = Move(L.available, a, b, x)]

\* Frozen to frozen: the lock k of a shrinks, the lock j of b grows (or is
\* made); no available balance changes.
TransferFrozen(L, a, k, b, j, x) ==
  [L EXCEPT !.frozen = Move(L.frozen, a, b, x),
            !.locks  = MoveLocked(L.locks, a, k, b, j, x)]

-----------------------------------------------------------------------------
(* What is read off a ledger.                                              *)

\* account.frozen_balance == sum(lock.amount for lock in account.locks)
FrozenMatchesLocks(L) ==
  \A a \in DOMAIN L.frozen : L.frozen[a] = SumFunction(L.locks[a])

\* Every credit in the system, free or frozen.
Credits(L) == SumFunction(L.available) + SumFunction(L.frozen)
=============================================================================
