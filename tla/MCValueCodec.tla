---------------------------- MODULE MCValueCodec -----------------------------
(***************************************************************************)
(* ValueCodec on values of every type, with the lengths and numbers at which *)
(* its conversions change course.                                            *)
(***************************************************************************)
EXTENDS ValueCodec

Of(type, datas) == {[type |-> type, data |-> d] : d \in datas}

UpTo(n, S) == UNION {[1..k -> S] : k \in 0..n}

Texts == UpTo(3, {0, 1, 7})
Doubles == {-26, -5, 0, 3, 10, 15, Infinity}

SmallValues ==
    Of("int", {-1, 0, 127}) \cup Of("int64_t", {-1, 300})
    \cup Of("float", Doubles) \cup Of("double", Doubles)
    \cup Of("bool", {"true", "false"})
    \cup Of("string", Texts) \cup Of("object", Texts)
    \cup Of("stringArray", UpTo(2, UpTo(2, {0, 1, 7})))
    \cup Of("boolArray", UpTo(2, {"true", "false"}))
    \cup Of("doubleArray", UpTo(2, Doubles))
    \cup Of("intArray", UpTo(2, {-1, 0})) \cup Of("int64Array", UpTo(2, {-1, 300}))
    \cup Of("uint8Array", UpTo(4, {0, 1, 63, 171, 255}))
    \cup Of("BigInt", [words : UpTo(3, {0, 5, UINT64 - 1}), sign : {-1, 0, 1}])
    \cup Of("monostate", {0})
=============================================================================
