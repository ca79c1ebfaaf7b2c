-------------------------- MODULE MCWalletLedger --------------------------
(***************************************************************************)
(* Instances of WalletLedger for TLC. The calls are chosen so that every   *)
(* refusal and every race of _execute can happen: a reference used twice   *)
(* for the same call (replay), for another user, for another amount, for   *)
(* the other kind of debit; a wallet created by two calls at once; every   *)
(* operation with and without the balance it needs.                        *)
(***************************************************************************)
EXTENDS WalletLedger, TLC

CONSTANTS p1, p2, u1, u2, r1, r2, r3

MCProcs      == {p1, p2}
MCUsers      == {u1, u2}
MCCurrencies == {"UGX"}
MCReferences == {r1, r2, r3}
MCContexts   == {"none", "withdrawal"}

C(u, op, amount, ref, context, counterparty, style) ==
    [account |-> <<u, "UGX">>, op |-> op, amount |-> amount, ref |-> ref,
     context |-> context, counterparty |-> counterparty, style |-> style]

(* Callers that hold no row before _execute, and withdrawals, purchases    *)
(* and deposits as the services issue them, on two wallets.                *)
MCCalls ==
    { C(u1, CREDIT,  2, r1, "none", Unspecified, "direct"),
      C(u2, CREDIT,  2, r1, "none", Unspecified, "direct"),
      C(u1, CREDIT,  1, r1, "none", Unspecified, "direct"),
      C(u1, RESERVE, 1, r2, "none", Unspecified, "direct"),
      C(u1, RELEASE, 1, r3, "none", Unspecified, "direct"),
      C(u1, RELEASE, 1, r3, "withdrawal", Unspecified, "direct"),
      C(u1, CONSUME, 1, r3, "none", Unspecified, "direct"),
      C(u1, DEBIT,   1, r3, "none", Unspecified, "direct"),
      C(u2, DEBIT,   1, r3, "none", "UNSUPPORTED", "direct"),
      C(u2, CREDIT,  0, r2, "none", Unspecified, "direct"),
      C(u1, CREDIT,  2, r1, "none", Unspecified, "getOrCreate"),
      C(u1, RESERVE, 2, r2, "withdrawal", Unspecified, "walletFirst"),
      C(u1, DEBIT,   2, r3, "none", "REVENUE", "walletFirst") }
=============================================================================
