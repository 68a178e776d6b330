----------------------------- MODULE MCExtraArgs -----------------------------
EXTENDS ExtraArgs
Patch(c, k, o) == [name |-> c, extraArgs |-> <<[key |-> k, value |-> 9, override |-> o]>>]
MCFilePatches == {<<>>, <<Patch("etcd", "set", TRUE), Patch("etcd", "v", FALSE)>>}
=============================================================================
