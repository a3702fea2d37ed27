----------------------------- MODULE ObjectSerde -----------------------------
(***************************************************************************)
(* The Java object serializer of lib/sd: the JNI entry points (SD and      *)
(* Serde), class registration (ClassResolver, ClassWalker), the host's    *)
(* sd::Context with ObjectWalker, which writes an object graph into a byte *)
(* buffer, and ObjectReviver, which rebuilds it through JNI, and the DPA   *)
(* path of SD (DPAContext, its DPAThreadGroup and the sd.c kernel on each  *)
(* device thread, which walks the graph with the class table exported to *)
(* the device at Start).                                                   *)
(*                                                                         *)
(* The buffer is modelled byte by byte: a record is written with the      *)
(* little-endian puts and the zero padding of RWBuffer, and read back with *)
(* its gets and skips, so an offset or a length that disagrees between    *)
(* the two sides shows.  A Java heap is a function from object ids to     *)
(* objects whose compressed pointers are the ids themselves (0 is null);  *)
(* a class is named by its klass, the address of its Klass, here a small  *)
(* integer, since info_by_klass is ordered by it.  The JVM behaviours the *)
(* code relies on but JNI leaves undefined are the choices of the HotSpot *)
(* builds a Spark executor runs: "jdk8" or "jdk17".                       *)
(***************************************************************************)
EXTENDS Integers, Sequences, TLC
LOCAL INSTANCE SequencesExt

CONSTANTS
  Classes,    \* the JVM's classes, by klass
  Heap,       \* the Java heap: object id -> object
  RegSeq,     \* the class sets the application registers, call by call
  Roots,      \* the objects the application passes to Serialize
  DeviceThreads, \* the maxDeviceThreads values the Java options may hold
  MaxCalls    \* bound on Serialize and on Deserialize calls

\* A class has its kind ("object", "enum" or "array") and its layout
\* helper's size (obj_size; for an array the array header size).  An
\* object class lists its own non-static fields <<type, sig, off>> in
\* declaration order: sig is the klass of a reference field's declared type
\* and off the field's offset in the object.  An array class has its
\* dimension dim, element type etype and, for references, eklass (the
\* element klass, or the array klass of one dimension less).  An object of
\* the heap has its klass cls, an enum ordinal ord, its bytes after the mark
\* word and the compressed klass pointer (raw; reference fields hold
\* compressed pointers, here object ids), and an array its length len and,
\* for references, its elements elems.  Every object class has an instance
\* field of its own: one without keeps header_size at UINT8_MAX (see the
\* hazards).
ASSUME /\ Roots \subseteq DOMAIN Heap
       /\ \A o \in DOMAIN Heap : Heap[o].cls \in DOMAIN Classes
       /\ \A k \in DOMAIN Classes : Classes[k].kind = "object" => Classes[k].fields # <<>>
       /\ \A i \in DOMAIN RegSeq : RegSeq[i] \subseteq DOMAIN Classes
       /\ MaxCalls \in Nat \ {0}
       /\ DeviceThreads \subseteq Nat \ {0}

\* basic_type.h
T_BOOLEAN == 4
T_CHAR == 5
T_FLOAT == 6
T_DOUBLE == 7
T_BYTE == 8
T_SHORT == 9
T_INT == 10
T_LONG == 11
T_OBJECT == 12
T_ARRAY == 13
NULL_FLAG == 1
ENUM_FLAG == 2
OBJECT_FLAG == 16
ARRAY_FLAG == 32
CTRL_FLAG_MASK == 15
UNREGISTERED_CLASS_ID == -1
MIN_CLASS_ID == 20     \* T_ILLEGAL
\* sizeof(meta_header_t): the walk starts after the total_length word.
OBJECT_DATA_OFFSET == 8
\* The mark word and the compressed klass pointer: where raw starts, and
\* where an enum's ordinal is (walk_enum_klass, get_enum_ordinal).
OOP_HEADER == 12
UINT8_MAX == 255

Objects == DOMAIN Heap
Null == 0
Jvms == {"jdk8", "jdk17"}

VARIABLES
  phase,    \* "uninit", "ready" after Initialize (or Serde.close), "started" after
            \* SD.Start / Serde.create, "destroyed" after Destroy
  opts,     \* the Options the JNI Initialize installed
  jvm,      \* the HotSpot build the JNI calls run on
  ndebug,   \* whether the build compiles assert() out
  reg,      \* the ClassResolver g_r
  nreg,     \* the RegisterClasses calls made
  dev,      \* the class table the DPA holds (meta_idx), exported at Start
  dead,     \* enum constants <<klass, ordinal>> whose global ref is destroyed
  wire,     \* byte arrays returned by Serialize: <<root, bytes, path>>
  got,      \* objects returned by Deserialize: <<root, value>>
  fatal,    \* "none", or the assert / trap that stopped the program
  dpa       \* the DPAContext's thread group and the Serialize it runs

vars == <<phase, opts, jvm, ndebug, reg, nreg, dev, dead, wire, got, fatal, dpa>>

----------------------------------------------------------------------------
(* Types and bytes.                                                        *)

is_primitive_type(t) == t >= T_BOOLEAN /\ t <= T_LONG
is_reference_type(t) == t >= T_OBJECT /\ t <= T_ARRAY
type_size(t) ==
  CASE t \in {T_BOOLEAN, T_BYTE} -> 1
    [] t \in {T_CHAR, T_SHORT} -> 2
    [] t \in {T_INT, T_FLOAT} -> 4
    [] t \in {T_LONG, T_DOUBLE} -> 8
    [] is_reference_type(t) -> 4

\* v as w little-endian bytes (two's complement for a negative class id).
\* The values of a model stay below 2^31, so bytes past the fourth are 0.
LE(v, w) ==
  LET u == IF v < 0 THEN v + 2^16 ELSE v
  IN [i \in 1 .. w |-> IF i > 4 THEN 0 ELSE (u \div 2^(8 * (i - 1))) % 256]
\* The w bytes after byte offset off, read little-endian (the bytes past the
\* fourth are 0, as above).
ReadLE(b, off, w) ==
  LET acc[i \in 0 .. w] == IF i = 0 THEN 0
                           ELSE IF i > 4 THEN acc[i - 1]
                           ELSE acc[i - 1] + b[off + i] * 2^(8 * (i - 1))
  IN acc[w]
ReadI16(b, off) == LET u == ReadLE(b, off, 2) IN IF u >= 2^15 THEN u - 2^16 ELSE u
Bytes(b, off, n) == SubSeq(b, off + 1, off + n)
Zeros(n) == [i \in 1 .. n |-> 0]
\* upper_align(off, 8)
Align8(n) == ((n + 7) \div 8) * 8
\* RWBuffer::fill_next_align_8: zero bytes up to the next multiple of 8.
fill_next_align_8(b) == b \o Zeros(Align8(Len(b)) - Len(b))
\* RWBuffer::put_at
PutAt(b, off, v) == [j \in 1 .. Len(b) |-> IF j > off /\ j <= off + Len(v) THEN v[j - off] ELSE b[j]]

----------------------------------------------------------------------------
(* UTF-16LE <-> UTF-8, as simdutf converts: 0 on invalid input.           *)

Units(raw) == [i \in 1 .. Len(raw) \div 2 |-> raw[2 * i - 1] + 256 * raw[2 * i]]
UnitBytes(us) == [i \in 1 .. 2 * Len(us) |-> IF i % 2 = 1 THEN us[(i + 1) \div 2] % 256
                                                           ELSE us[i \div 2] \div 256]
IsHigh(u) == u >= 55296 /\ u < 56320     \* 0xD800 .. 0xDBFF
IsLow(u) == u >= 56320 /\ u < 57344      \* 0xDC00 .. 0xDFFF
Cont(x) == 128 + (x % 64)
RECURSIVE Utf8Of(_)
Utf8Of(us) ==
  IF us = <<>> THEN <<>>
  ELSE LET u == Head(us) IN
    CASE u < 128 -> <<u>> \o Utf8Of(Tail(us))
      [] u < 2048 -> <<192 + u \div 64, Cont(u)>> \o Utf8Of(Tail(us))
      [] IsHigh(u) /\ Len(us) >= 2 /\ IsLow(us[2]) ->
           LET cp == 65536 + (u - 55296) * 1024 + (us[2] - 56320)
           IN <<240 + cp \div 262144, Cont(cp \div 4096), Cont(cp \div 64), Cont(cp)>>
                \o Utf8Of(Tail(Tail(us)))
      [] IsHigh(u) \/ IsLow(u) -> <<-1>>          \* unpaired surrogate
      [] OTHER -> <<224 + u \div 4096, Cont(u \div 64), Cont(u)>> \o Utf8Of(Tail(us))
\* simdutf::convert_utf16le_to_utf8: the UTF-8 bytes, none if invalid.
convert_utf16le_to_utf8(us) ==
  LET r == Utf8Of(us) IN IF \E i \in DOMAIN r : r[i] < 0 THEN <<>> ELSE r
RECURSIVE convert_utf8_to_utf16le(_)
convert_utf8_to_utf16le(b) ==
  IF b = <<>> THEN <<>>
  ELSE LET c == Head(b) IN
    CASE c < 128 -> <<c>> \o convert_utf8_to_utf16le(Tail(b))
      [] c < 224 -> <<(c - 192) * 64 + (b[2] % 64)>> \o convert_utf8_to_utf16le(SubSeq(b, 3, Len(b)))
      [] c < 240 -> <<(c - 224) * 4096 + (b[2] % 64) * 64 + (b[3] % 64)>>
                      \o convert_utf8_to_utf16le(SubSeq(b, 4, Len(b)))
      [] OTHER -> LET cp == (c - 240) * 262144 + (b[2] % 64) * 4096 + (b[3] % 64) * 64 + (b[4] % 64)
                  IN <<55296 + (cp - 65536) \div 1024, 56320 + ((cp - 65536) % 1024)>>
                       \o convert_utf8_to_utf16le(SubSeq(b, 5, Len(b)))

----------------------------------------------------------------------------
(* ClassResolver and ClassWalker.  A class table is the resolver's state:  *)
(* info_by_id and info_by_klass (sequences of klasses), the ClassInfo of   *)
(* each registered klass, and unresolved: for each klass, the fields       *)
(* <<klass, index>> of registered classes that wait for its id.  The       *)
(* signature of a class stands for its klass, so sig2id is info_by_id.     *)
(* A ClassInfo has kind, id, header_size, obj_size and its field table     *)
(* <<[type, id, offset]>>, offsets after the header; an array's one field  *)
(* is its element.                                                         *)

EmptyTable == [by_id |-> <<>>, by_klass |-> <<>>, info |-> <<>>,
               unresolved |-> [k \in DOMAIN Classes |-> {}]]

\* std::ranges::lower_bound over info_by_klass: halve [first, first+count).
RECURSIVE LowerBoundFrom(_, _, _, _)
LowerBoundFrom(s, k, first, count) ==
  IF count = 0 THEN first
  ELSE LET step == count \div 2
       IN IF s[first + step] < k THEN LowerBoundFrom(s, k, first + step + 1, count - step - 1)
          ELSE LowerBoundFrom(s, k, first, step)
LowerBound(s, k) == LowerBoundFrom(s, k, 1, Len(s))

\* ClassResolver::get_class_info(klass) is not dummy.
IsRegistered(T, k) ==
  LET i == LowerBound(T.by_klass, k) IN i <= Len(T.by_klass) /\ T.by_klass[i] = k
\* get_class_info(sig) through sig2id.
SigRegistered(T, k) == \E i \in DOMAIN T.by_id : T.by_id[i] = k
SigId(T, k) == T.info[k].id

\* ClassResolver::index2id
index2id(i) == i + MIN_CLASS_ID

\* Mutant: the fields waiting for the new class keep id -1.
register_class_info_nopatch(T, k, inf) ==
  [T EXCEPT !.by_id = Append(@, k),
            !.by_klass = InsertAt(@, LowerBound(@, k), k),
            !.info = (k :> [inf EXCEPT !.id = index2id(Len(T.by_id))]) @@ @,
            !.unresolved[k] = {}]

\* ClassWalker::register_class_info: the next id, append to info_by_id,
\* insert into info_by_klass at its lower bound, then give the new id to
\* every field waiting for this signature and erase the entry.
register_class_info(T, k, inf) ==
  LET id == index2id(Len(T.by_id))
      infos == (k :> [inf EXCEPT !.id = id]) @@ T.info
      Patched(c) ==
        LET fs == infos[c].fields
        IN [infos[c] EXCEPT !.fields = [j \in DOMAIN fs |->
                              IF <<c, j>> \in T.unresolved[k] THEN [fs[j] EXCEPT !.id = id] ELSE fs[j]]]
  IN [T EXCEPT !.by_id = Append(@, k),
               !.by_klass = InsertAt(@, LowerBound(@, k), k),
               !.info = [c \in DOMAIN infos |-> Patched(c)],
               !.unresolved[k] = {}]

\* ClassResolver::from_instance_klass: id -1, obj_size from the layout
\* helper, header_size UINT8_MAX (the walker lowers it), and one entry per
\* non-static field, all bytes 0xFF until the walker resolves it.  An enum
\* class has no instance field (its assert).
from_instance_klass(k, is_enum) ==
  [kind |-> IF is_enum THEN "enum" ELSE "object", id |-> UNREGISTERED_CLASS_ID,
   header |-> UINT8_MAX, size |-> Classes[k].size,
   fields |-> [j \in DOMAIN Classes[k].fields |-> [type |-> -1, id |-> UNREGISTERED_CLASS_ID, offset |-> -1]]]

\* ClassResolver::from_array_klass: obj_size and header_size are the array
\* header size; the one field, the element, is T_ILLEGAL with id -1 until
\* the walker sets it.
from_array_klass(k) ==
  [kind |-> "array", id |-> UNREGISTERED_CLASS_ID, header |-> Classes[k].size, size |-> Classes[k].size,
   fields |-> <<[type |-> MIN_CLASS_ID, id |-> UNREGISTERED_CLASS_ID, offset |-> 0]>>]

\* ClassWalker::walk_enum_klass: the ordinal right after the 12-byte
\* header, 16 bytes in all, no instance fields.
walk_enum_klass(T, k) ==
  IF IsRegistered(T, k) THEN T
  ELSE register_class_info(T, k, [from_instance_klass(k, TRUE) EXCEPT !.header = OOP_HEADER,
                                                                      !.size = OOP_HEADER + 4])

\* The minimum offset of the own fields (from_instance_klass starts at
\* UINT8_MAX), and the fields sorted by offset.
header_size(fs) == IF fs = <<>> THEN UINT8_MAX ELSE Min({fs[j].off : j \in DOMAIN fs})
SortedFields(fs) == SortSeq(fs, LAMBDA x, y : x.off < y.off)

\* ClassWalker::walk_instance_klass: a reference field takes the id of its
\* declared class when sig2id has it, else -1 and an entry in unresolved
\* (a primitive field keeps the -1 of the memset).
walk_instance_klass(T, k) ==
  IF IsRegistered(T, k) THEN T
  ELSE LET fs == SortedFields(Classes[k].fields)
           header == header_size(fs)
           Waits(j) == is_reference_type(fs[j].type) /\ ~SigRegistered(T, fs[j].sig)
           table == [j \in DOMAIN fs |->
                      [type |-> fs[j].type, offset |-> fs[j].off - header,
                       id |-> IF is_reference_type(fs[j].type) /\ ~Waits(j) THEN SigId(T, fs[j].sig)
                              ELSE UNREGISTERED_CLASS_ID]]
           T1 == [T EXCEPT !.unresolved =
                    [s \in DOMAIN @ |-> @[s] \cup {<<k, j>> : j \in {x \in DOMAIN fs : Waits(x) /\ fs[x].sig = s}}]]
       IN register_class_info(T1, k, [from_instance_klass(k, FALSE) EXCEPT !.header = header,
                                                                          !.fields = table])

\* ClassWalker::walk_array_klass: a one-dimensional array of references
\* registers its element class first, a deeper one its lower dimension.
RECURSIVE walk_array_klass(_, _)
walk_array_klass(T, k) ==
  IF IsRegistered(T, k) THEN T
  ELSE LET c == Classes[k]
           T1 == CASE c.dim > 1 -> walk_array_klass(T, c.eklass)
                   [] c.etype = T_OBJECT /\ Classes[c.eklass].kind = "enum" -> walk_enum_klass(T, c.eklass)
                   [] c.etype = T_OBJECT -> walk_instance_klass(T, c.eklass)
                   [] OTHER -> T
           elem == [type |-> IF c.dim > 1 THEN T_ARRAY ELSE c.etype, offset |-> 0,
                    id |-> IF c.dim > 1 \/ c.etype = T_OBJECT THEN T1.info[c.eklass].id
                           ELSE UNREGISTERED_CLASS_ID]
       IN register_class_info(T1, k, [from_array_klass(k) EXCEPT !.fields[1] = elem])

\* ClassResolver::register_class
register_class(T, k) ==
  CASE IsRegistered(T, k) -> T
    [] Classes[k].kind = "enum" -> walk_enum_klass(T, k)
    [] Classes[k].kind = "object" -> walk_instance_klass(T, k)
    [] Classes[k].kind = "array" -> walk_array_klass(T, k)

\* ClassResolver::register_classes, in the iteration order of the Java set.
register_classes(T, order) == FoldLeft(LAMBDA acc, k : register_class(acc, k), T, order)

----------------------------------------------------------------------------
(* ObjectWalker over the host's class table T: each operator takes the    *)
(* buffer written so far (its length is RWBuffer's offset) and returns it *)
(* with the record appended.                                               *)

Info(T, o) == T.info[Heap[o].cls]
\* The compressed pointer of a reference field, read at its offset.
RefAt(raw, off) == ReadLE(raw, off, 4)
\* obj->raw(header_size), object_body_size bytes.
Body(info, o) == SubSeq(Heap[o].raw, info.header - OOP_HEADER + 1, info.size - OOP_HEADER)
\* The record an enum constant is written as.
EnumRecord(id, ord) == LE(id, 2) \o LE(OBJECT_FLAG + ENUM_FLAG, 2) \o LE(ord, 4)

RECURSIVE walk(_, _, _, _), do_walk_object(_, _, _, _), WalkFields(_, _, _, _, _),
          do_walk_array(_, _, _, _), WalkElems(_, _, _, _, _)

\* ObjectWalker::walk(obj, expected_id); the record's base is
\* Len(fill_next_align_8(b)).
walk(T, b, o, expected_id) ==
  LET b0 == fill_next_align_8(b) IN
  IF o = Null THEN b0 \o LE(expected_id, 2) \o LE(NULL_FLAG, 2)
  ELSE LET info == Info(T, o) IN
       CASE info.kind = "enum" -> b0 \o EnumRecord(info.id, Heap[o].ord)
         [] info.kind = "object" -> do_walk_object(T, b0, o, info)
         [] info.kind = "array" -> do_walk_array(T, b0, o, info)

\* id, OBJECT_FLAG, padding, the body; then each reference field's member,
\* whose base overwrites the pointer in the copied body (put_at).
do_walk_object(T, b, o, info) ==
  LET b1 == fill_next_align_8(b \o LE(info.id, 2) \o LE(OBJECT_FLAG, 2))
  IN WalkFields(T, b1 \o Body(info, o), Len(b1), info.fields, 1)

\* Mutant: the member's offset taken before the padding walk() inserts.
WalkFields_unpadded(T, b, obj_base, fs, i) ==
  IF i > Len(fs) THEN b
  ELSE IF is_primitive_type(fs[i].type) THEN WalkFields(T, b, obj_base, fs, i + 1)
  ELSE LET f_offset == obj_base + fs[i].offset
           member == RefAt(b, f_offset)
       IN WalkFields(T, PutAt(walk(T, b, member, fs[i].id), f_offset, LE(Len(b), 4)),
                     obj_base, fs, i + 1)

WalkFields(T, b, obj_base, fs, i) ==
  IF i > Len(fs) THEN b
  ELSE IF is_primitive_type(fs[i].type) THEN WalkFields(T, b, obj_base, fs, i + 1)
  ELSE LET f_offset == obj_base + fs[i].offset
           member == RefAt(b, f_offset)
           member_offset == Len(fill_next_align_8(b))
       IN WalkFields(T, PutAt(walk(T, b, member, fs[i].id), f_offset, LE(member_offset, 4)),
                     obj_base, fs, i + 1)

\* ObjectWalker::cvt_utf16_to_utf8: origin byte size, actual byte size (0
\* when simdutf rejects the input), the UTF-8 bytes.
cvt_utf16_to_utf8(b, raw, length) ==
  LET u8 == convert_utf16le_to_utf8(Units(raw))
  IN b \o LE(length * 2, 4) \o LE(Len(u8), 4) \o u8

\* id, ARRAY_FLAG, length, padding, then the elements.
do_walk_array(T, b, o, info) ==
  LET length == Heap[o].len
      elem == info.fields[1]
      b1 == fill_next_align_8(b \o LE(info.id, 2) \o LE(ARRAY_FLAG, 2) \o LE(length, 4))
  IN CASE is_reference_type(elem.type) -> WalkElems(T, b1, Heap[o].elems, elem.id, 1)
       [] elem.type = T_CHAR /\ opts.enable_utf16_to_utf8 -> cvt_utf16_to_utf8(b1, Heap[o].raw, length)
       [] OTHER -> b1 \o Heap[o].raw

WalkElems(T, b, elems, id, i) ==
  IF i > Len(elems) THEN b ELSE WalkElems(T, walk(T, b, elems[i], id), elems, id, i + 1)

\* ObjectWalker::walk(obj, resolver, ...) and Context::serialize: skip the
\* meta header, walk the root, store total_length (u64) in the header; the
\* Java byte[] is the first total_length bytes.
serialize(T, o) ==
  LET b == walk(T, Zeros(OBJECT_DATA_OFFSET), o, UNREGISTERED_CLASS_ID)
  IN PutAt(b, 0, LE(Len(b), 8))

\* The <<object, expected id>> pairs a walk of o over table T reaches.
RECURSIVE Visits(_, _, _)
Visits(T, o, e) ==
  {<<o, e>>} \cup
    IF o = Null \/ ~IsRegistered(T, Heap[o].cls) THEN {}
    ELSE LET info == Info(T, o)
             refs == {j \in DOMAIN info.fields : is_reference_type(info.fields[j].type)}
         IN CASE info.kind = "object" ->
                   UNION {Visits(T, RefAt(Body(info, o), info.fields[j].offset), info.fields[j].id) : j \in refs}
              [] info.kind = "array" /\ refs # {} ->
                   UNION {Visits(T, Heap[o].elems[j], info.fields[1].id) : j \in DOMAIN Heap[o].elems}
              [] OTHER -> {}

\* How the host walk of o stops: assert(!info.is_dummy()) for an object of
\* an unregistered class (without asserts, the dummy ClassInfo's null
\* class_info_t is dereferenced), assert(expected_id != -1) for a null
\* member of a field whose class was never resolved (without asserts, the
\* null record carries id -1).
WalkFault(T, o) ==
  LET vs == Visits(T, o, UNREGISTERED_CLASS_ID)
      unregistered == \E v \in vs : v[1] # Null /\ ~IsRegistered(T, Heap[v[1]].cls)
      unresolved == \E v \in vs : v[1] = Null /\ v[2] = UNREGISTERED_CLASS_ID
  IN CASE ~ndebug /\ (unregistered \/ unresolved) -> "assert"
       [] unregistered -> "crash"
       [] OTHER -> "none"
----------------------------------------------------------------------------
(* The sd.c kernel, run by a DPA thread over the class table D the device *)
(* copied at Start (register_class_infos): the same records, with its own *)
(* class lookup and no UTF-16 conversion.                                  *)

\* sd.c type_size: the width of a field or element; the JVM's internal
\* types (T_VOID .. T_ILLEGAL, 14 .. 20) are 0.
kernel_type_size(t) ==
  CASE t \in {T_BOOLEAN, T_BYTE} -> 1
    [] t \in {T_CHAR, T_SHORT} -> 2
    [] t \in {T_INT, T_FLOAT} -> 4
    [] t \in {T_LONG, T_DOUBLE} -> 8
    [] t \in {T_OBJECT, T_ARRAY} -> 4
    [] t \in 14 .. 20 -> 0

\* The widths of the put_u8 / put_u16 / put_u32 of each case of sd.c's
\* fill_next_align_8, by padding 1 .. 7.
PadPuts == <<<<1>>, <<2>>, <<1, 2>>, <<4>>, <<1, 4>>, <<2, 4>>, <<1, 2, 4>>>>

\* sd.c fill_next_align_8: its switch on the padding to the next multiple
\* of 8 puts zeros of the case's widths.
kernel_fill_next_align_8(b) ==
  LET padding == Align8(Len(b)) - Len(b)
  IN IF padding = 0 THEN b
     ELSE b \o FoldLeft(LAMBDA acc, w : acc \o Zeros(w), <<>>, PadPuts[padding])

\* The kernel's meta_idx before any export: empty tables.
DeviceEmpty == [by_id |-> <<>>, by_klass |-> <<>>, info |-> <<>>]

\* ClassResolver::export_class_infos and the register_class_infos RPC:
\* the device copies the class infos and both index tables as they are
\* now; later changes on the host do not reach it.
register_class_infos(T) == [by_id |-> T.by_id, by_klass |-> T.by_klass, info |-> T.info]

\* get_class_info_by_klass: binary search of class_infos_by_klass over
\* [l, r); the position found, or 0 where the kernel hits UNREACHABLE_CRIT.
RECURSIVE get_class_info_by_klass(_, _, _, _)
get_class_info_by_klass(s, k, l, r) ==
  IF l >= r THEN 0
  ELSE LET m == (r - l) \div 2 + l
       IN CASE s[m + 1] = k -> m + 1
            [] s[m + 1] < k -> get_class_info_by_klass(s, k, m + 1, r)
            [] OTHER -> get_class_info_by_klass(s, k, l, m)
KernelLookup(D, k) == get_class_info_by_klass(D.by_klass, k, 0, Len(D.by_klass))

RECURSIVE _do_serialize_recur(_, _, _, _), _do_serialize_object(_, _, _, _),
          KernelFields(_, _, _, _, _), _do_serialize_array(_, _, _, _), KernelElems(_, _, _, _, _)

\* Mutant: the body put right after id and flag, without the padding.
_do_serialize_object_nofill(D, b, o, info) ==
  LET b1 == b \o LE(info.id, 2) \o LE(OBJECT_FLAG, 2)
  IN KernelFields(D, b1 \o Body(info, o), Len(b1), info.fields, 1)

\* _do_serialize_object
_do_serialize_object(D, b, o, info) ==
  LET b1 == kernel_fill_next_align_8(b \o LE(info.id, 2) \o LE(OBJECT_FLAG, 2))
  IN KernelFields(D, b1 \o Body(info, o), Len(b1), info.fields, 1)

KernelFields(D, b, obj_base, fs, i) ==
  IF i > Len(fs) THEN b
  ELSE IF is_primitive_type(fs[i].type) THEN KernelFields(D, b, obj_base, fs, i + 1)
  ELSE LET f_offset == obj_base + fs[i].offset
           h_member == RefAt(b, f_offset)
           member_offset == Len(kernel_fill_next_align_8(b))
       IN KernelFields(D, PutAt(_do_serialize_recur(D, b, h_member, fs[i].id), f_offset, LE(member_offset, 4)),
                       obj_base, fs, i + 1)

\* _do_serialize_array: primitive elements are copied, length times
\* type_size bytes.
_do_serialize_array(D, b, o, info) ==
  LET length == Heap[o].len
      elem == info.fields[1]
      b1 == kernel_fill_next_align_8(b \o LE(info.id, 2) \o LE(ARRAY_FLAG, 2) \o LE(length, 4))
  IN IF is_reference_type(elem.type) THEN KernelElems(D, b1, Heap[o].elems, elem.id, 1)
     ELSE b1 \o SubSeq(Heap[o].raw, 1, length * kernel_type_size(elem.type))

KernelElems(D, b, elems, id, i) ==
  IF i > Len(elems) THEN b
  ELSE KernelElems(D, _do_serialize_recur(D, b, elems[i], id), elems, id, i + 1)

\* _do_serialize_recur: a null writes expected_id without any check.
_do_serialize_recur(D, b, o, expected_id) ==
  LET b0 == kernel_fill_next_align_8(b) IN
  IF o = Null THEN b0 \o LE(expected_id, 2) \o LE(NULL_FLAG, 2)
  ELSE LET info == D.info[D.by_klass[KernelLookup(D, Heap[o].cls)]] IN
       CASE info.kind = "enum" -> b0 \o EnumRecord(info.id, Heap[o].ord)
         [] info.kind = "object" -> _do_serialize_object(D, b0, o, info)
         [] info.kind = "array" -> _do_serialize_array(D, b0, o, info)

\* _do_serialize, as do_serialize runs it on a task's output buffer.
_do_serialize(D, o) ==
  LET b == _do_serialize_recur(D, Zeros(OBJECT_DATA_OFFSET), o, UNREGISTERED_CLASS_ID)
  IN PutAt(b, 0, LE(Len(b), 8))

\* A task on o reaches UNREACHABLE_CRIT: an object of its graph has a klass
\* the device's table does not hold.
KernelTrap(D, o) ==
  \E v \in Visits(D, o, UNREGISTERED_CLASS_ID) : v[1] # Null /\ KernelLookup(D, Heap[v[1]].cls) = 0

\* The class tables g_r can hold after the first k Register calls, each
\* set in any order; Start exports one of them.
RECURSIVE Resolvers(_)
Resolvers(k) ==
  IF k = 0 THEN {EmptyTable}
  ELSE Resolvers(k - 1) \cup {register_classes(T, order) : T \in Resolvers(k - 1), order \in SetToSeqs(RegSeq[k])}

\* What a task on o does on a device holding D: trap, or write
\* _do_serialize.  The kernel is a function of the table and the heap;
\* tabulated once, over every table the device can hold, and read by the
\* device threads.
KernelResult ==
  [D \in {register_class_infos(T) : T \in Resolvers(Len(RegSeq))} |->
     [o \in Objects \cup {Null} |->
        [trap |-> KernelTrap(D, o), out |-> IF KernelTrap(D, o) THEN <<>> ELSE _do_serialize(D, o)]]]

\* DPAContext::do_serialize: an array of references is split into one task
\* per element when more than one device thread is configured; any other
\* root is one task, _do_serialize of the whole graph.
IsBatched(o) ==
  LET info == Info(reg, o)
  IN info.kind = "array" /\ opts.max_device_threads > 1 /\ is_reference_type(info.fields[1].type)

\* The objects the tasks of a DPA Serialize of o run on, in trigger order.
Tasks(o) == IF IsBatched(o) THEN Heap[o].elems ELSE <<o>>

\* do_array_obj_serialize before its batches: the array header from the
\* host's ClassInfo, after the meta header, padded to 8.
ArrayHeader(o, info) ==
  fill_next_align_8(Zeros(OBJECT_DATA_OFFSET) \o LE(info.id, 2) \o LE(ARRAY_FLAG, 2) \o LE(Heap[o].len, 4))

\* One element's part of the result: fill_next_align_8, then its task
\* output without the task's own meta header.
PutPiece(b, out, length) == fill_next_align_8(b) \o SubSeq(out, OBJECT_DATA_OFFSET + 1, length)

\* DPAContext::do_array_obj_serialize as a function of the first k
\* elements: what the buffer holds once their outputs are copied, each the
\* kernel's _do_serialize of that element.  The reference the stepwise
\* run is checked against.
do_array_obj_serialize(o, k) ==
  FoldLeft(LAMBDA acc, e : LET out == _do_serialize(dev, e) IN PutPiece(acc, out, Len(out)),
           ArrayHeader(o, Info(reg, o)), SubSeq(Heap[o].elems, 1, k))

\* The last step: total_length into the meta header.
Finish(b) == PutAt(b, 0, LE(Len(b), 8))

----------------------------------------------------------------------------
(* The DPAThreadGroup of DPAContext (lib/doca/dpa_thread), one DPAThread   *)
(* per device thread, and the sd.c kernel loop each thread runs.  The     *)
(* Serialize call is the host fiber; DPAContext::serialize starts a      *)
(* poller fiber on the same thread that runs g.progress() (the task_cb of *)
(* the completions) while the host fiber is blocked.  dpa holds:          *)
(*   pc      "idle", "trigger" (the trigger loop of a batch), "again"     *)
(*           (yielding in submit_task) or "collect"                       *)
(*           (the get loop);                                              *)
(*   root, items, batched, base, n, j: the call, its task objects, the    *)
(*           first item of the batch, n_task, and the loop index;         *)
(*   ctx     the batch's TaskContexts: input id, done, output [len, h];    *)
(*   buf     the out buffer b of do_array_obj_serialize;                  *)
(*   active  active_flags; outstanding: outstanding_tasks, id -> ctx;      *)
(*   inq     per thread, the cpu -> dpa messages <<id, object>>;          *)
(*   outq    per thread, the dpa -> cpu messages [id, len, h];            *)
(*   hout    per thread, its h_out_buffer, where the kernel's output is.  *)

\* The DPAThreads the DPAContext added, by thread_idx.
Threads == DOMAIN dpa.active
NoCtx == [id |-> -1, done |-> FALSE, len |-> 0, h |-> -1]

\* DPAThreadGroup's constructor: active_flags(n_thread, false).
NoneActive(n) == [t \in 0 .. n - 1 |-> FALSE]

\* DPAThread's constructor, for each of the n threads: its in_q and out_q
\* msgqs (one producer, one consumer each) are created and started empty,
\* and nothing has been written to its h_out_buffer.
EmptyQueues(n) == [t \in 0 .. n - 1 |-> <<>>]

\* DPAContext's constructor: n device threads, none active.
DPAIdle(n) ==
  [pc |-> "idle", root |-> Null, items |-> <<>>, batched |-> FALSE, base |-> 0, n |-> 0, j |-> 1,
   ctx |-> <<>>, buf |-> <<>>, active |-> NoneActive(n), outstanding |-> <<>>,
   inq |-> EmptyQueues(n), outq |-> EmptyQueues(n), hout |-> EmptyQueues(n)]

\* The i-th batch of do_array_obj_serialize: n_task = min(batch_size,
\* length - i * batch_size) fresh TaskContexts (do_obj_serialize: one).
StartBatch(d, base) ==
  LET n == IF Len(d.items) - base < opts.max_device_threads THEN Len(d.items) - base
           ELSE opts.max_device_threads
  IN [d EXCEPT !.pc = "trigger", !.base = base, !.n = n, !.j = 1, !.ctx = [x \in 1 .. n |-> NoCtx]]

\* get_one_inactive_thread: the first thread whose flag is clear.
FirstInactive(d) == Min({t \in Threads : ~d.active[t]})

\* The host fiber is suspended (in fs[j].get(), or yielding in
\* get_one_inactive_thread or in submit_task), so the poller fiber runs.
MainBlocked ==
  \/ dpa.pc \in {"collect", "again"}
  \/ dpa.pc = "trigger" /\ \A t \in Threads : dpa.active[t]

----------------------------------------------------------------------------
(* ObjectReviver.  A revived value is a record of one shape: k is "null",  *)
(* "enum", "obj", "parr" (primitive array), "rarr" (reference array),      *)
(* "prim" (a primitive field's bytes) or "dead" (jdk8's deleted_handle     *)
(* oop).  The reader's state st is RWBuffer's offset, the enum constants   *)
(* whose global ref is destroyed, and the asserts that failed.             *)

V(k, c, ord, raw, e) == [k |-> k, cls |-> c, ord |-> ord, raw |-> raw, e |-> e]
NullV == V("null", 0, 0, <<>>, <<>>)
DeadV == V("dead", 0, 0, <<>>, <<>>)
PrimV(raw) == V("prim", 0, 0, raw, <<>>)
Res(v, st) == [v |-> v, st |-> st]

\* ClassInfo::get_enum: the constant's global ref, as the JVM resolves it.
\* JNIHandles::destroy_local stores deleted_handle() in jdk8 and NULL in
\* jdk17 into whatever handle it is given, a global one included.
get_enum(c, ord, dd) ==
  IF <<c, ord>> \in dd THEN (IF jvm = "jdk8" THEN DeadV ELSE NullV)
  ELSE V("enum", c, ord, <<>>, <<>>)

\* Mutant: every member handle, a null one included, is taken as a
\* constant's global ref.
DeleteLocalRef_any(v, st) == [st EXCEPT !.dead = @ \cup {<<v.cls, v.ord>>}]

\* DeleteLocalRef(member_handle) after SetObjectField/SetObjectArrayElement:
\* the handle of an enum member is the class info's global ref.
DeleteLocalRef(v, st) ==
  IF v.k = "enum" THEN [st EXCEPT !.dead = @ \cup {<<v.cls, v.ord>>}] ELSE st

\* SetByteArrayRegion(handle, 0, length, buf) on an array of type t:
\* jdk8 copies length << log2(element size) bytes, jdk17 length bytes; the
\* rest of the new array stays zero.
SetByteArrayRegion(b, off, length, t) ==
  LET n == length * type_size(t)
      copied == IF jvm = "jdk8" THEN n ELSE length
  IN Bytes(b, off, copied) \o Zeros(n - copied)

\* Mutant: the unused origin_byte_size is no longer read.
cvt_utf8_to_utf16_noorigin(b, st, c, length) ==
  LET actual_byte_size == ReadLE(b, st.off, 4)
      u16 == convert_utf8_to_utf16le(Bytes(b, st.off + 4, actual_byte_size))
      raw == UnitBytes(SubSeq(u16 \o Zeros(length), 1, length))
  IN Res(V("parr", c, 0, raw, <<>>),
         [st EXCEPT !.off = @ + 4 + actual_byte_size,
                    !.err = IF Len(u16) # length THEN @ \cup {"assert"} ELSE @])

\* ObjectReviver::cvt_utf8_to_utf16: simdutf writes the UTF-16 units into
\* the new char[length]; assert(actual_length == length).
cvt_utf8_to_utf16(b, st, c, length) ==
  LET actual_byte_size == ReadLE(b, st.off + 4, 4)
      u16 == convert_utf8_to_utf16le(Bytes(b, st.off + 8, actual_byte_size))
      raw == UnitBytes(SubSeq(u16 \o Zeros(length), 1, length))
  IN Res(V("parr", c, 0, raw, <<>>),
         [st EXCEPT !.off = @ + 8 + actual_byte_size,
                    !.err = IF Len(u16) # length THEN @ \cup {"assert"} ELSE @])

RECURSIVE parse(_, _), do_parse_object(_, _, _), ParseFields(_, _, _, _, _, _),
          do_parse_array(_, _, _), ParseElems(_, _, _, _, _, _)

\* ObjectReviver::parse.  The REDIRECT_FLAG branch (die) is unreachable:
\* the walker never writes one.
parse(b, st) ==
  LET base == Align8(st.off)
      id == ReadI16(b, base)
      flag == ReadLE(b, base + 2, 2)
      st1 == [st EXCEPT !.off = base + 4]
      k == reg.by_id[id - MIN_CLASS_ID + 1]     \* get_class_info(id)
  IN CASE flag % 16 = NULL_FLAG -> Res(NullV, st1)
       [] reg.info[k].kind = "enum" ->
            Res(get_enum(k, ReadLE(b, base + 4, 4), st.dead), [st1 EXCEPT !.off = @ + 4])
       [] reg.info[k].kind = "object" -> do_parse_object(b, st1, k)
       [] reg.info[k].kind = "array" -> do_parse_array(b, st1, k)

\* Primitive fields are read at field_base + offset; the members of the
\* reference fields follow the body, in field order.  A reference field
\* whose pointer slot does not hold its member's base is recorded as "slot".
do_parse_object(b, st, c) ==
  LET field_base == Align8(st.off)
      info == reg.info[c]
      r == ParseFields(b, [st EXCEPT !.off = field_base + info.size - info.header],
                       field_base, info.fields, 1, <<>>)
  IN Res(V("obj", c, 0, <<>>, r.v), r.st)

ParseFields(b, st, field_base, fs, i, acc) ==
  IF i > Len(fs) THEN Res(acc, st)
  ELSE IF is_primitive_type(fs[i].type)
  THEN ParseFields(b, st, field_base, fs, i + 1,
                   Append(acc, PrimV(Bytes(b, field_base + fs[i].offset, type_size(fs[i].type)))))
  ELSE LET m == parse(b, st)
           slot_ok == RefAt(b, field_base + fs[i].offset) = Align8(st.off)
           st1 == [m.st EXCEPT !.err = IF slot_ok THEN @ ELSE @ \cup {"slot"}]
       IN ParseFields(b, DeleteLocalRef(m.v, st1), field_base, fs, i + 1, Append(acc, m.v))

do_parse_array(b, st, c) ==
  LET length == ReadLE(b, st.off, 4)
      st1 == [st EXCEPT !.off = Align8(@ + 4)]
      elem == reg.info[c].fields[1]
  IN CASE is_reference_type(elem.type) -> ParseElems(b, st1, c, length, 1, <<>>)
       [] elem.type = T_CHAR /\ opts.enable_utf16_to_utf8 -> cvt_utf8_to_utf16(b, st1, c, length)
       [] OTHER -> Res(V("parr", c, 0, SetByteArrayRegion(b, st1.off, length, elem.type), <<>>),
                       [st1 EXCEPT !.off = @ + length * type_size(elem.type)])

ParseElems(b, st, c, length, i, acc) ==
  IF i > length THEN Res(V("rarr", c, 0, <<>>, acc), st)
  ELSE LET m == parse(b, st)
       IN ParseElems(b, DeleteLocalRef(m.v, m.st), c, length, i + 1, Append(acc, m.v))

\* ObjectReviver::revive: the result is root, the first object or array the
\* reviver allocated; parse returns an enum (or null) without setting it.
revive(b, dd) ==
  LET r == parse(b, [off |-> OBJECT_DATA_OFFSET, dead |-> dd, err |-> {}])
  IN Res(IF r.v.k \in {"obj", "parr", "rarr"} THEN r.v ELSE NullV, r.st)

----------------------------------------------------------------------------
(* The object graph a root stands for, as the Java program sees it: the   *)
(* own fields in offset order, read from the object's bytes.              *)

RECURSIVE Unfold(_)
Unfold(o) ==
  IF o = Null THEN NullV
  ELSE LET h == Heap[o]
           c == Classes[h.cls]
           FieldValue(f) == IF is_primitive_type(f.type)
                            THEN PrimV(Bytes(h.raw, f.off - OOP_HEADER, type_size(f.type)))
                            ELSE Unfold(RefAt(h.raw, f.off - OOP_HEADER))
           fs == SortedFields(c.fields)
       IN CASE c.kind = "enum" -> V("enum", h.cls, h.ord, <<>>, <<>>)
            [] c.kind = "object" -> V("obj", h.cls, 0, <<>>, [i \in DOMAIN fs |-> FieldValue(fs[i])])
            [] c.etype = T_OBJECT \/ c.dim > 1 ->
                 V("rarr", h.cls, 0, <<>>, [i \in 1 .. h.len |-> Unfold(h.elems[i])])
            [] OTHER -> V("parr", h.cls, 0, h.raw, <<>>)

----------------------------------------------------------------------------
(* The JNI entry points.                                                   *)

Init ==
  /\ phase = "uninit"
  /\ opts = [api |-> "none", use_dpa |-> FALSE, enable_utf16_to_utf8 |-> FALSE,
             max_device_threads |-> 4]
  /\ jvm \in Jvms
  /\ ndebug \in BOOLEAN
  /\ reg = EmptyTable
  /\ nreg = 0
  /\ dev = DeviceEmpty
  /\ dead = {}
  /\ wire = <<>>
  /\ got = <<>>
  /\ fatal = "none"
  /\ dpa = DPAIdle(0)

\* Options::from_java: the useDpa, enableUtf16ToUtf8 and maxDeviceThreads
\* fields of the Java options; the DPA serializer has no UTF-16 conversion.
from_java(use_dpa, utf16, n) ==
  [use_dpa |-> use_dpa, enable_utf16_to_utf8 |-> utf16 /\ ~use_dpa, max_device_threads |-> n]

\* Java_pdsl_dpx_SD_Initialize / Java_pdsl_dpx_Serde_Initialize: the
\* options and an empty ClassResolver g_r.  Serde then forces
\* enable_utf16_to_utf8 on.  (SD's use_dpa also opens the device and
\* creates g_d_ctx, which the model takes as given.)
Initialize(api) ==
  /\ phase = "uninit"
  /\ phase' = "ready"
  /\ \E use_dpa, utf16 \in BOOLEAN, n \in DeviceThreads :
       LET o == from_java(use_dpa, utf16, n)
       IN opts' = [api |-> api, use_dpa |-> o.use_dpa, max_device_threads |-> n,
                   enable_utf16_to_utf8 |-> IF api = "Serde" THEN TRUE ELSE o.enable_utf16_to_utf8]
       /\ dpa' = DPAIdle(n)
  /\ UNCHANGED <<jvm, ndebug, reg, nreg, dev, dead, wire, got, fatal>>

\* SD.Register / Serde.Register: g_r->register_classes of the next set the
\* application registers, in any iteration order of the Java set, at any
\* time after Initialize (neither JNI entry checks more than g_r).  SD's
\* device tables are those Start copied.
RegisterClasses ==
  /\ phase \in {"ready", "started"}
  /\ nreg < Len(RegSeq)
  /\ \E order \in SetToSeqs(RegSeq[nreg + 1]) : reg' = register_classes(reg, order)
  /\ nreg' = nreg + 1
  /\ UNCHANGED <<phase, opts, jvm, ndebug, dev, dead, wire, got, fatal, dpa>>

\* SD.Start (with use_dpa, export_class_infos: the device copies the class
\* infos and both index tables): the application serializes from now on.
Start ==
  /\ phase = "ready" /\ opts.api = "SD"
  /\ phase' = "started"
  /\ dev' = IF opts.use_dpa THEN register_class_infos(reg) ELSE dev
  /\ UNCHANGED <<opts, jvm, ndebug, reg, nreg, dead, wire, got, fatal, dpa>>

\* Serde.create: a new Context over g_r, inserted into g_ctx under mu; its
\* handle is what the application serializes with.
create ==
  /\ phase = "ready" /\ opts.api = "Serde"
  /\ phase' = "started"
  /\ UNCHANGED <<opts, jvm, ndebug, reg, nreg, dev, dead, wire, got, fatal, dpa>>

\* Serde.close of the handle: erase it from g_ctx and delete the Context.
\* The application may register more classes and create a new one.
close ==
  /\ phase = "started" /\ opts.api = "Serde" /\ fatal = "none"
  /\ phase' = "ready"
  /\ UNCHANGED <<opts, jvm, ndebug, reg, nreg, dev, dead, wire, got, fatal, dpa>>

\* SD.Destroy between calls: delete g_ctx, g_d_ctx (its thread group), g_r,
\* the heap mapping and the device.  No JNI call follows.
SD_Destroy ==
  /\ phase \in {"ready", "started"} /\ opts.api = "SD" /\ dpa.pc = "idle" /\ fatal = "none"
  /\ phase' = "destroyed"
  /\ UNCHANGED <<opts, jvm, ndebug, reg, nreg, dev, dead, wire, got, fatal, dpa>>

\* Serde.Destroy: delete g_r and every Context still in g_ctx.
Serde_Destroy ==
  /\ phase \in {"ready", "started"} /\ opts.api = "Serde" /\ fatal = "none"
  /\ phase' = "destroyed"
  /\ UNCHANGED <<opts, jvm, ndebug, reg, nreg, dev, dead, wire, got, fatal, dpa>>

\* Context::serialize: the walk's byte[], or the assert that stops it.
SerializeHost(o) ==
  LET f == WalkFault(reg, o)
  IN IF f = "none" THEN wire' = Append(wire, <<o, serialize(reg, o), "host">>) /\ UNCHANGED fatal
     ELSE fatal' = f /\ UNCHANGED wire

\* DPAContext::serialize / do_serialize: null for a root of an unregistered
\* class; an array of references with no elements is its header alone;
\* otherwise the first batch of tasks begins.
SerializeDPA(o) ==
  LET items == Tasks(o)
      header == ArrayHeader(o, Info(reg, o))
  IN CASE ~IsRegistered(reg, Heap[o].cls) ->
            wire' = Append(wire, <<o, <<>>, "null">>) /\ UNCHANGED <<fatal, dpa>>
       [] items = <<>> ->
            wire' = Append(wire, <<o, Finish(header), "batch">>) /\ UNCHANGED <<fatal, dpa>>
       [] OTHER ->
            /\ dpa' = StartBatch([dpa EXCEPT !.root = o, !.items = items, !.batched = IsBatched(o),
                                             !.buf = IF IsBatched(o) THEN header ELSE <<>>], 0)
            /\ UNCHANGED <<wire, fatal>>

\* SD.Serialize (DPAContext when use_dpa) / Serde.Serialize (a Context):
\* the byte[] of a root object.
Serialize(o) ==
  /\ phase = "started" /\ fatal = "none" /\ dpa.pc = "idle"
  /\ Len(wire) < MaxCalls
  /\ IF opts.api = "SD" /\ opts.use_dpa THEN SerializeDPA(o) ELSE SerializeHost(o) /\ UNCHANGED dpa
  /\ UNCHANGED <<phase, opts, jvm, ndebug, reg, nreg, dev, dead, got>>

\* What the steps of the thread group leave alone.
DPAFrame == UNCHANGED <<phase, opts, jvm, ndebug, reg, nreg, dev, dead, got>>

Claim(d) ==
  LET t == FirstInactive(d)
  IN [d EXCEPT !.active[t] = TRUE, !.ctx[d.j].id = t]

\* The rest of trigger: the receive is posted, outstanding_tasks.emplace
\* (which keeps an entry already there) and the input is sent to the
\* thread.  The loop of do_array_obj_serialize triggers the next context,
\* or goes on to the get loop after the last.
Submitted(d) ==
  LET t == d.ctx[d.j].id
      last == d.j = d.n
  IN [d EXCEPT !.inq[t] = Append(@, <<t, d.items[d.base + d.j]>>),
               !.outstanding = IF t \in DOMAIN @ THEN @ ELSE (t :> d.j) @@ @,
               !.j = IF last THEN 1 ELSE @ + 1,
               !.pc = IF last THEN "collect" ELSE "trigger"]

trigger(d) == Submitted(Claim(d))

\* The host fiber triggers the next task when a thread is inactive (else
\* get_one_inactive_thread yields, see FiberYield).  Each submit_task
\* (helper.cxx) retries a DOCA_ERROR_AGAIN after boost::this_fiber::yield:
\* the host fiber is then suspended with the thread claimed and its input
\* not yet sent ("again"; a yield in the second submit differs only in the
\* outstanding entry, which no answer can look up before the input is sent).
DPATrigger ==
  /\ fatal = "none" /\ dpa.pc = "trigger"
  /\ \E t \in Threads : ~dpa.active[t]
  /\ \/ dpa' = trigger(dpa)
     \/ dpa' = [Claim(dpa) EXCEPT !.pc = "again"]
  /\ UNCHANGED <<wire, fatal>> /\ DPAFrame

\* doca_task_submit succeeds on a retry, and trigger goes on.
DPASubmitRetry ==
  /\ fatal = "none" /\ dpa.pc = "again"
  /\ dpa' = Submitted(dpa)
  /\ UNCHANGED <<wire, fatal>> /\ DPAFrame

\* d_memcpy of a task's output into a thread's h_out_buffer: the bytes
\* after it keep what an earlier task left there.
Overwrite(old, out) == out \o (IF Len(old) > Len(out) THEN SubSeq(old, Len(out) + 1, Len(old)) ELSE <<>>)

\* sd.c serialize / comch_cons_comp on device thread t: take the input,
\* run do_serialize into the thread's buffers, copy the result to its
\* h_out_buffer, ack the input and send [id, length, h_output] back.
comch_cons_comp(t) ==
  /\ fatal = "none" /\ t \in Threads /\ dpa.inq[t] # <<>>
  /\ LET m == Head(dpa.inq[t])
         r == KernelResult[dev][m[2]]
     IN /\ ~r.trap
        /\ dpa' = [dpa EXCEPT !.inq[t] = Tail(@), !.hout[t] = Overwrite(@, r.out),
                              !.outq[t] = Append(@, [id |-> m[1], len |-> Len(r.out), h |-> t])]
  /\ UNCHANGED <<wire, fatal>> /\ DPAFrame

\* The kernel stops at UNREACHABLE_CRIT on thread t: the host waits for an
\* answer that never comes.
KernelTrapped(t) ==
  /\ fatal = "none" /\ t \in Threads /\ dpa.inq[t] # <<>>
  /\ KernelResult[dev][Head(dpa.inq[t])[2]].trap
  /\ fatal' = "dpa_trap"
  /\ UNCHANGED <<wire, dpa>> /\ DPAFrame

\* Mutant: task_cb leaves the thread's active flag set.
task_cb_keepflag(t) ==
  /\ fatal = "none" /\ t \in Threads /\ MainBlocked /\ dpa.outq[t] # <<>>
  /\ LET p == Head(dpa.outq[t])
     IN dpa' = IF p.id \in DOMAIN dpa.outstanding
               THEN LET c == dpa.outstanding[p.id]
                    IN [dpa EXCEPT !.outq[t] = Tail(@), !.ctx[c].done = TRUE, !.ctx[c].len = p.len,
                                   !.ctx[c].h = p.h, !.outstanding = [x \in DOMAIN @ \ {p.id} |-> @[x]]]
               ELSE [dpa EXCEPT !.outq[t] = Tail(@)]
  /\ UNCHANGED <<wire, fatal>> /\ DPAFrame

\* DPAThread::task_cb of a Recv completion of thread t, in the poller's
\* g.progress(): the context waiting on the answer's id gets the output,
\* leaves outstanding_tasks, its thread turns inactive and its promise is
\* set.  An id with no waiting context is dropped ("drop one ?").
task_cb(t) ==
  /\ fatal = "none" /\ t \in Threads /\ MainBlocked /\ dpa.outq[t] # <<>>
  /\ LET p == Head(dpa.outq[t])
     IN dpa' = IF p.id \in DOMAIN dpa.outstanding
               THEN LET c == dpa.outstanding[p.id]
                    IN [dpa EXCEPT !.outq[t] = Tail(@), !.ctx[c].done = TRUE, !.ctx[c].len = p.len,
                                   !.ctx[c].h = p.h, !.outstanding = [x \in DOMAIN @ \ {p.id} |-> @[x]],
                                   !.active[p.id] = FALSE]
               ELSE [dpa EXCEPT !.outq[t] = Tail(@)]
  /\ UNCHANGED <<wire, fatal>> /\ DPAFrame

\* DPAThread::task_cb of a failed Send or Recv task of thread t
\* (TaskResult::Failure): it only logs the status, so the context never
\* gets its answer and the host fiber waits on its future for ever.
task_cb_failure(t) ==
  /\ fatal = "none" /\ t \in Threads /\ MainBlocked
  /\ dpa.inq[t] # <<>> \/ dpa.outq[t] # <<>>
  /\ fatal' = "task_failure"
  /\ UNCHANGED <<wire, dpa>> /\ DPAFrame

\* The poller finds no completion and yields, or the host fiber yields in
\* get_one_inactive_thread: nothing changes.
FiberYield ==
  /\ fatal = "none" /\ MainBlocked
  /\ \A t \in Threads : dpa.outq[t] = <<>>
  /\ UNCHANGED vars

\* A call's fields cleared when it returns; the threads keep their state.
EndCall(d) ==
  [d EXCEPT !.pc = "idle", !.root = Null, !.items = <<>>, !.batched = FALSE, !.base = 0, !.n = 0,
            !.j = 1, !.ctx = <<>>, !.buf = <<>>]

\* fs[j].get() once the j-th context is done: do_array_obj_serialize puts
\* the output at h_output (its own thread's h_out_buffer) without the meta
\* header after fill_next_align_8; do_obj_serialize copies out.length
\* bytes into the new byte[].  After the last context of the batch: the
\* next batch, or total_length, the byte[] and the poller's join.
DPACollect ==
  /\ fatal = "none" /\ dpa.pc = "collect" /\ dpa.ctx[dpa.j].done
  /\ LET c == dpa.ctx[dpa.j]
         b == IF dpa.batched THEN PutPiece(dpa.buf, dpa.hout[c.h], c.len)
              ELSE SubSeq(dpa.hout[c.h], 1, c.len)
         next == dpa.base + dpa.n
     IN \/ /\ dpa.j < dpa.n
           /\ dpa' = [dpa EXCEPT !.buf = b, !.j = @ + 1] /\ UNCHANGED wire
        \/ /\ dpa.j = dpa.n /\ next < Len(dpa.items)
           /\ dpa' = StartBatch([dpa EXCEPT !.buf = b], next) /\ UNCHANGED wire
        \/ /\ dpa.j = dpa.n /\ next = Len(dpa.items)
           /\ wire' = Append(wire, IF dpa.batched THEN <<dpa.root, Finish(b), "batch">>
                                   ELSE <<dpa.root, b, "task">>)
           /\ dpa' = EndCall(dpa)
  /\ UNCHANGED fatal /\ DPAFrame

\* SD.Deserialize / Serde.Deserialize of what Serialize returned, with the
\* root's class: Context::deserialize, also when SD uses the DPA.  A null
\* byte[] reaches GetPrimitiveArrayCritical; a failed assert aborts the JVM
\* unless the build defines NDEBUG.
Deserialize(i) ==
  /\ phase = "started" /\ fatal = "none"
  /\ Len(got) < MaxCalls
  /\ IF wire[i][3] = "null" THEN fatal' = "crash" /\ UNCHANGED <<got, dead>>
     ELSE LET r == revive(wire[i][2], dead) IN
            /\ got' = Append(got, <<wire[i][1], r.v>>)
            /\ dead' = r.st.dead
            /\ fatal' = IF "assert" \in r.st.err /\ ~ndebug THEN "assert" ELSE fatal
  /\ UNCHANGED <<phase, opts, jvm, ndebug, reg, nreg, dev, wire, dpa>>

\* The application makes no more calls (or the JVM or the DPA has stopped).
Terminated ==
  /\ fatal # "none" \/ phase = "destroyed" \/ (Len(wire) = MaxCalls /\ Len(got) = MaxCalls)
  /\ UNCHANGED vars

Next ==
  \/ \E api \in {"SD", "Serde"} : Initialize(api)
  \/ RegisterClasses
  \/ Start \/ create \/ close
  \/ SD_Destroy \/ Serde_Destroy
  \/ \E o \in Roots : Serialize(o)
  \/ \E i \in DOMAIN wire : Deserialize(i)
  \/ DPATrigger \/ DPASubmitRetry
  \/ \E t \in Threads : comch_cons_comp(t)
  \/ \E t \in Threads : KernelTrapped(t)
  \/ \E t \in Threads : task_cb(t) \/ task_cb_failure(t)
  \/ DPACollect
  \/ FiberYield
  \/ Terminated

Spec == Init /\ [][Next]_vars

\* The device threads run in parallel with the host and are woken by the
\* completion of their input; the poller fiber loops on g.progress()
\* whenever the host fiber is suspended, and the host fiber resumes when
\* its future is ready.  The JVM's own calls get no fairness.
MaxThread == Max(DeviceThreads) - 1
FairSpec ==
  /\ Spec
  /\ WF_vars(DPATrigger) /\ WF_vars(DPASubmitRetry) /\ WF_vars(DPACollect)
  /\ \A t \in 0 .. MaxThread : /\ WF_vars(comch_cons_comp(t)) /\ WF_vars(KernelTrapped(t))
                             /\ WF_vars(task_cb(t))

----------------------------------------------------------------------------
(* Properties.                                                             *)

TypeOK ==
  /\ phase \in {"uninit", "ready", "started", "destroyed"}
  /\ opts.api \in {"none", "SD", "Serde"}
  /\ opts.use_dpa \in BOOLEAN /\ opts.enable_utf16_to_utf8 \in BOOLEAN
  /\ jvm \in Jvms /\ ndebug \in BOOLEAN
  /\ DOMAIN reg.info \subseteq DOMAIN Classes /\ nreg \in 0 .. Len(RegSeq)
  /\ dead \subseteq (DOMAIN Classes) \X Nat
  /\ \A i \in DOMAIN wire : /\ wire[i][1] \in Roots
                            /\ wire[i][3] \in {"host", "task", "batch", "null"}
                            /\ \A j \in DOMAIN wire[i][2] : wire[i][2][j] \in 0 .. 255
  /\ \A i \in DOMAIN got : got[i][1] \in Roots
  /\ fatal \in {"none", "assert", "crash", "dpa_trap", "task_failure"}
  /\ dpa.pc \in {"idle", "trigger", "again", "collect"}
  /\ phase # "uninit" => Threads = 0 .. opts.max_device_threads - 1
  /\ DOMAIN dpa.outstanding \subseteq DOMAIN dpa.active
  /\ \A t \in DOMAIN dpa.outstanding : dpa.outstanding[t] \in 1 .. dpa.n

\* Walker and reviver agree on the layout of every byte[] Serialize
\* returned, by the host walker or by the DPA: total_length (the walker's
\* final offset, stored in the meta header) is the array's length, and the
\* reviver's parse of it ends exactly there.
Framing ==
  \A i \in DOMAIN wire : wire[i][3] # "null" =>
    LET b == wire[i][2]
    IN /\ ReadLE(b, 0, 8) = Len(b)
       /\ revive(b, dead).st.off = Len(b)

\* In a byte[] one walker wrote over the whole graph (the host's
\* ObjectWalker, or a single DPA task), every reference field's slot,
\* rewritten by put_at after the member was walked, holds the base offset
\* of the record the reviver finds for that member.
MemberSlots ==
  \A i \in DOMAIN wire : wire[i][3] \in {"host", "task"} => "slot" \notin revive(wire[i][2], dead).st.err

\* The class whose id the j-th entry of k's field table stands for.
DeclaredClass(k, j) ==
  IF Classes[k].kind = "array" THEN Classes[k].eklass ELSE SortedFields(Classes[k].fields)[j].sig

\* Registration in several Register calls and in any set order leaves no
\* field behind: a reference field (or element) of a registered class
\* carries the id of its declared class once that class is registered,
\* whichever was registered first, and unresolved only holds classes that
\* are not registered.
FieldIdsResolved ==
  /\ \A k \in DOMAIN reg.info : \A j \in DOMAIN reg.info[k].fields :
       LET f == reg.info[k].fields[j]
       IN is_reference_type(f.type) /\ DeclaredClass(k, j) \in DOMAIN reg.info
            => f.id = reg.info[DeclaredClass(k, j)].id
  /\ \A s \in DOMAIN Classes : reg.unresolved[s] # {} => s \notin DOMAIN reg.info

\* A single DPA task writes the very bytes the host's ObjectWalker writes
\* for the same root: the kernel's lookup in the exported table and its
\* records agree with the host walker, so the host's reviver can read them.
KernelMatchesWalker ==
  \A i \in DOMAIN wire : wire[i][3] = "task" => wire[i][2] = serialize(reg, wire[i][1])

\* Deserialize gives back the object graph that was serialized: every
\* object Deserialize returned equals the graph of the root its byte[] was
\* made from, enum constants included.
RoundTrip ==
  \A i \in DOMAIN got : got[i][2] = Unfold(got[i][1])

\* The thread group hands each element's answer to that element: while a
\* DPA Serialize of an array runs, its out buffer holds, in index order,
\* the kernel's record of every element collected so far, whichever
\* threads ran them and in whatever order their answers came; and every
\* batched byte[] returned is the records of all its elements.
Collected == dpa.base + (IF dpa.pc = "collect" THEN dpa.j - 1 ELSE 0)
SerializeReturns == dpa.pc # "idle" ~> (dpa.pc = "idle" \/ fatal # "none")

====
