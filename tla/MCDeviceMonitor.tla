--------------------------- MODULE MCDeviceMonitor ---------------------------
(* A monitor of one adapter hears one device directly and through a router, *)
(* with two contents and two expiration times, and every kind of telegram   *)
(* it drops.                                                                *)
EXTENDS DeviceMonitor

Eth0 == <<"eth0">>

Telegram(i, u, r, e, b) ==
  [shape |-> "object", method |-> "announce", interface |-> i, uuid |-> u,
   router |-> r, expiration |-> e, body |-> b]

Good == Telegram(<<"lan">>, <<"u">>, EmptyString, 1, "a")

Heard == {Good,
          [Good EXCEPT !.expiration = 2],
          [Good EXCEPT !.body = "b"],
          [Good EXCEPT !.router = <<"r">>]}

Bad == {[Good EXCEPT !.shape = "garbage"],
        [Good EXCEPT !.shape = "rootless", !.method = "other"],
        [Good EXCEPT !.shape = "misshapen"],
        [Good EXCEPT !.shape = "misshapen", !.method = "other"],
        [Good EXCEPT !.method = "other"],
        [Good EXCEPT !.interface = EmptyString],
        [Good EXCEPT !.uuid = EmptyString],
        [Good EXCEPT !.expiration = 0],
        [Good EXCEPT !.expiration = -1]}

MCAdapters == {Eth0}
MCMessages == Heard \cup Bad

ASSUME ColonFreeInstance == ColonFree
==============================================================================
