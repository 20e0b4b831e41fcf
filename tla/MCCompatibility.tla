-------------------------- MODULE MCCompatibility --------------------------
(***************************************************************************)
(* Descriptors for TLC: a plain one and those that differ from it in one   *)
(* field or in two, so that every pair of fields is seen to vary together  *)
(* and apart.                                                              *)
(***************************************************************************)
EXTENDS Compatibility

x == <<7>>
y == <<8>>

Device == [backend |-> 0, major |-> 0, minor |-> 0, memory |-> 0]

Base == [model |-> x, revision |-> x, adapter |-> <<>>, tokenizer |-> <<>>,
         phase |-> 0, dtype |-> 0, backend |-> 0, mode |-> 0, device |-> Device,
         shape |-> <<>>, sampling |-> <<>>, extensions |-> <<>>]

Devices == {[Device EXCEPT ![f] = 1] : f \in DOMAIN Device}

Variants(f) ==
  CASE f \in {"model", "revision", "adapter", "tokenizer", "shape", "sampling"} -> {<<>>, x, x \o x}
    [] f \in {"phase", "dtype", "backend", "mode"} -> {1}
    [] f = "device" -> Devices
    [] f = "extensions" -> {<<x>>, <<y>>, <<x, y>>, <<y, x>>, <<x \o y>>, <<x, x>>}

Varied(ds) == UNION {{[d EXCEPT ![f] = v] : v \in Variants(f)} : d \in ds, f \in DOMAIN Base}

OneField  == {Base} \cup Varied({Base})
TwoFields == OneField \cup Varied(OneField)
=============================================================================
