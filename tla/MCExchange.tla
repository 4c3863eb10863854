------------------------------ MODULE MCExchange ------------------------------
(* A small exchange for TLC: two GitHub users and a bot log in and are given   *)
(* keys (Exchange); a pull request's webhooks come again and markets run out   *)
(* (ExchangeMarkets).                                                          *)
EXTENDS Exchange

=============================================================================
