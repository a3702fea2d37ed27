--------------------------- MODULE MCObjectSerde ---------------------------
(* A small set of Java classes, a heap, and the order an application      *)
(* registers the classes in, for ObjectSerde.                             *)
EXTENDS ObjectSerde

Obj(c, ord, raw, len, elems) == [cls |-> c, ord |-> ord, raw |-> raw, len |-> len, elems |-> elems]
Fld(t, sig, off) == [type |-> t, sig |-> sig, off |-> off]
Cls(kind, size, fields, dim, etype, eklass) ==
  [kind |-> kind, size |-> size, fields |-> fields, dim |-> dim, etype |-> etype, eklass |-> eklass]

\* Klasses in metaspace order: 2 enum Color, 3 char[], 4 Pair[],
\* 5 class Pair { byte b; Color c; } as HotSpot lays it out with compressed
\* class pointers (c at 12, b at 16, 24 bytes in all), 6 Color[], 7 short[].
\* An array's layout helper gives a 16-byte header.
MCClasses ==
  (2 :> Cls("enum", 16, <<>>, 0, 0, 0)) @@
  (3 :> Cls("array", 16, <<>>, 1, T_CHAR, 0)) @@
  (4 :> Cls("array", 16, <<>>, 1, T_OBJECT, 5)) @@
  (5 :> Cls("object", 24, <<Fld(T_BYTE, 0, 16), Fld(T_OBJECT, 2, 12)>>, 0, 0, 0)) @@
  (6 :> Cls("array", 16, <<>>, 1, T_OBJECT, 2)) @@
  (7 :> Cls("array", 16, <<>>, 1, T_SHORT, 0))

\* 1 new short[]{257}; 2 a char[] holding a lone high surrogate (U+D800),
\* which Java strings can carry; 3 a Pair (7, Color.GREEN); 4 Color.GREEN
\* (ordinal 1); 5 new Color[]{GREEN, null, GREEN}; 6 new Pair[]{null, 3}.
MCHeap ==
  (1 :> Obj(7, 0, <<1, 1>>, 1, <<>>)) @@
  (2 :> Obj(3, 0, <<0, 216>>, 1, <<>>)) @@
  (3 :> Obj(5, 0, <<4, 0, 0, 0, 7, 0, 0, 0, 0, 0, 0, 0>>, 0, <<>>)) @@
  (4 :> Obj(2, 1, <<>>, 0, <<>>)) @@
  (5 :> Obj(6, 0, <<>>, 3, <<4, 0, 4>>)) @@
  (6 :> Obj(4, 0, <<>>, 2, <<0, 3>>))

\* Pair[] and short[] first: Pair is registered through Pair[] while its
\* field c waits for Color, which comes with Color[] in the second call.
MCRegSeq == <<{4, 7}, {6, 3}>>

MCRootsAll == DOMAIN MCHeap
\* One device thread (one task per graph) and two (one task per element).
MCDeviceThreads == {1, 2}
\* Roots whose graphs hold an enum constant as a member.
MCRootsEnumMembers == {3, 5}
====
