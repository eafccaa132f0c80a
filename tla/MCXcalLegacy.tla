----------------------------- MODULE MCXcalLegacy -----------------------------
(* Instances of XcalLegacy for TLC. *)
EXTENDS XcalLegacy

Gateway(fields, n) ==
    [client |-> FALSE, useGliDiag |-> TRUE, rmfCrshSupp |-> TRUE,
     disableTuneReady |-> FALSE, ipv6 |-> FALSE, varying |-> fields, limit |-> n]

\* A gateway with IPv6 that is withdrawn without a tuner; one that does not wait
\* for the tuner; one whose ids and zone come from files; a client.
Confs ==
    { [Gateway({"tune", "serial", "prefix"}, 3) EXCEPT !.ipv6 = TRUE],
      Gateway({"tune", "id"}, 3), [Gateway({"tune"}, 4) EXCEPT !.disableTuneReady = TRUE],
      [Gateway({"tz", "dst"}, 3) EXCEPT !.disableTuneReady = TRUE],
      [Gateway({"tune", "diag", "id"}, 2) EXCEPT !.rmfCrshSupp = FALSE, !.useGliDiag = FALSE,
                                              !.disableTuneReady = TRUE],
      [Gateway({"id", "route"}, 2) EXCEPT !.client = TRUE, !.rmfCrshSupp = FALSE] }

Nothing == [tune |-> FALSE, id |-> 0, tz |-> None, dst |-> NoDst, serial |-> "short", route |-> None]
All == [tune |-> TRUE, id |-> 1, tz |-> "MST", dst |-> 0, serial |-> "serial", route |-> "r1"]

\* Before the first values, after all, and with a zone but no offset yet.
Values == { Nothing, All, [All EXCEPT !.dst = NoDst, !.tune = FALSE] }

\* Nothing is available; or values nobody has announced.
TwoStacks == { Nothing, [All EXCEPT !.id = 9, !.tz = "CST"] }
=============================================================================
