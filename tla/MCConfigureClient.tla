-------------------------- MODULE MCConfigureClient --------------------------
(* One client, and others that use one of its two ids as well.             *)
EXTENDS ConfigureClient

CONSTANTS i1, i2

MCIds == {i1, i2}

MCOtherIds == {i2}
==============================================================================
