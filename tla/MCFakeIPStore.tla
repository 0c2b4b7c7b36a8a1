--------------------------- MODULE MCFakeIPStore ----------------------------
(* Three hosts for a pool of two addresses; the host of names is spelled in *)
(* two ways, and one name is no host.                                       *)
EXTENDS FakeIPStore, TLC

CONSTANTS w1, w2, a, b, c

MCHosts == {a, b, c}
MCNames == {"a", "A.", "b", "c", "."}
MCCanonical == ("a" :> a) @@ ("A." :> a) @@ ("b" :> b) @@ ("c" :> c) @@ ("." :> NoHost)

=============================================================================
