---------------------------- MODULE SharedLedger ----------------------------
(***************************************************************************)
(* The exchange runs its venues over one RiskEngine.  The AMM and the book *)
(* number their markets from 1 independently of each other, and a lock     *)
(* names its market by that number only, so the first market of each has   *)
(* the same market_id.  This module puts those two markets on one ledger,  *)
(* with the same traders in both; their steps are the steps of the two     *)
(* modules.                                                                *)
(***************************************************************************)
EXTENDS AmmMarket

\* What is OtherParties and OtherLocks to the AMM is the book's escrow account
\* and the limit_order locks of its bids.
CONSTANTS
  Escrow,      \* the book market's escrow account
  Prices,      \* of book orders
  Sizes,
  MaxOrders

VARIABLES bookStatus, bookResolution, orders, shares, sets

bookVars == <<bookStatus, bookResolution, orders, shares, sets>>

Book == INSTANCE OrderBook WITH
  status <- bookStatus, resolution <- bookResolution, Funds <- TraderFunds

SharedInit ==
  /\ Init
  /\ bookStatus = "none"
  /\ bookResolution = Book!NoOutcome
  /\ orders = <<>>
  /\ shares = Book!NoShares
  /\ sets = 0

\* A book whose locks are gone raises in the middle of its walks; how far it
\* gets is not modelled, it takes no more steps here.
BookStep ==
  /\ Book!SetsAreBacked
  /\ Book!OrdersAreCovered
  /\ Book!Next
  /\ UNCHANGED <<status, resolution, funding, b, q, positions, trades, minted,
                 netPaid, paidIn, faults>>

AmmStep == Next /\ UNCHANGED bookVars

SharedSpec == SharedInit /\ [][AmmStep \/ BookStep]_<<vars, bookVars>>

-----------------------------------------------------------------------------
\* resolve(), market_engine.py:122: "Conservation: sum(all payouts) == sum(all
\* lock amounts) == pool", with no handler that failed and no status overridden:
\* however the two venues' steps interleave, credits are neither made nor lost.
VenuesConserve == Sound => Credits(ledger) = minted
=============================================================================
