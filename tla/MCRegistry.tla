------------------------------ MODULE MCRegistry ------------------------------
(* Instances of Registry for TLC: the core, three versions of a module, of    *)
(* which the last comes from a file and wants a command of the core, and a    *)
(* module of the name of a core module, which the second version answers to.  *)
EXTENDS Registry

CONSTANTS k0, k1, m1, m2, m3, ck, ca, u1, core, own

MCMods == {k0, k1, m1, m2, m3}
MCClassOf == (k0 :> ck) @@ (k1 :> ck) @@ (m1 :> ca) @@ (m2 :> ca) @@ (m3 :> ca)
MCNameOf == (k0 :> ck) @@ (k1 :> ck) @@ (m1 :> ca) @@ (m2 :> ck) @@ (m3 :> ca)
MCCommands == (k0 :> <<core>>) @@ (k1 :> <<>>)
              @@ (m1 :> <<own>>) @@ (m2 :> <<own>>) @@ (m3 :> <<own, core>>)
MCWatchers == (k0 :> 0) @@ (k1 :> 0) @@ (m1 :> 2) @@ (m2 :> 1) @@ (m3 :> 0)
MCRawHandlers == (k0 :> 0) @@ (k1 :> 0) @@ (m1 :> 2) @@ (m2 :> 1) @@ (m3 :> 0)
=============================================================================
