---------------------------- MODULE LookupTables ----------------------------
(* dispatch_router.cpp, binary_archive.cpp and field_mapper.cpp: tables that  *)
(* a stream fills, looked up by a key or gone through in order.               *)
EXTENDS RecordStream, Words

CONSTANTS RouteEntries,      \* [id, handler]
          ArchiveEntries,    \* [id, offset, size]
          FieldMappings,     \* [src, dst, transform, scale, offset], in thousandths
          SIZE_WRAP          \* the sum of an offset and a size is taken modulo this (2^32)

ASSUME MappingAssumption ==
  \A m \in FieldMappings : {m.src, m.dst} \subseteq Nat /\ {m.scale, m.offset} \subseteq Int

VARIABLES handlers,          \* destination -> route entry
          dispatch_count,
          archive,           \* the entries of an archive, in the order of its index
          mappings           \* of a field mapper

dispatchVars == <<handlers, dispatch_count>>
archiveVars == <<archive>>
mappingVars == <<mappings>>

DispatchTypeOK == \A i \in DOMAIN handlers : handlers[i].id = i
ArchiveTypeOK == archive \in Seq(ArchiveEntries)
MappingTypeOK == mappings \in Seq(FieldMappings)

-----------------------------------------------------------------------------
DispatchInit == handlers = << >> /\ dispatch_count = 0

\* Adds as it reads, keeping what was there.
LoadRoutesBinary(s) == handlers' = PutAll(handlers, Taken(s, FALSE)) /\ UNCHANGED dispatch_count
AddRouteEntry(e) == handlers' = PutAll(handlers, <<e>>) /\ UNCHANGED dispatch_count

\* Priority and hops are kept and decide nothing; a call that finds no handler counts too.
Dispatch(dest) == dispatch_count' = dispatch_count + 1 /\ UNCHANGED handlers
HandlerOf(dest) == {handlers[d].handler : d \in DOMAIN handlers \cap {dest}}

DispatchClear == handlers' = << >> /\ UNCHANGED dispatch_count

\* dispatch_hash_0 .. 99, n its number: the upper half of the product.
dispatch_hash(n, dest) == Shr(Plus(Times(KNUTH, WordOf(dest)), WordOf(n)), 16)

-----------------------------------------------------------------------------
ArchiveInit == archive = <<>>

\* Replaces the index as soon as the header is accepted.
ParseIndex(s) == archive' = IF s.header THEN Taken(s, FALSE) ELSE archive

\* The first entry of an id; the bytes handed to its codec, {} when they are not inside the archive.
\* The sum wraps: an entry may pass whose bytes are not.
ArchiveLookup(index, id) == SelectSeq(index, LAMBDA e : e.id = id)
ExtractEntry(index, id, len) ==
  LET found == ArchiveLookup(index, id)
  IN IF found = <<>> \/ (found[1].offset + found[1].size) % SIZE_WRAP > len THEN {}
     ELSE {[from |-> found[1].offset, size |-> found[1].size]}

\* archive_validate_name_0 .. 99, n its number; an empty name stands for none too.
archive_validate_name(n, name) == name # <<>> /\ name[1] # 0 /\ name[1 + (n % 63)] # 255

-----------------------------------------------------------------------------
MappingInit == mappings = <<>>

\* Sixteen bytes are asked for and thirteen taken; cleared in the same way.
LoadMappingsBinary(s) == mappings' = IF s.header THEN Taken(s, TRUE) ELSE mappings
AddMapping(m) == mappings' = Append(mappings, m)
MappingsClear == mappings' = <<>>

\* For x = v/1000, log1p(x) lies between x/(1+x) and x; a root is that of 1000 * v, which is no
\* larger than the mean of 1000 and v.
WholeRoot(n, bound) == CHOOSE r \in 0..bound : r * r <= n /\ (r + 1) * (r + 1) > n

MappingResults(m, v) ==
  CASE m.transform = 1 -> Stored(v * m.scale, 1000)
    [] m.transform = 2 -> Stored(v + m.offset, 1)
    [] m.transform = 3 -> Stored(v * m.scale + 1000 * m.offset, 1000)
    [] m.transform = 4 -> IF v <= -1000 THEN {0} ELSE Quotient(1000 * v, 1000 + v)..v
    [] m.transform = 5 -> IF v <= 0 THEN {0}
                          ELSE LET r == WholeRoot(1000 * v, (v + 1000) \div 2)
                               IN IF r * r = 1000 * v THEN {r, r - 1} ELSE {r}
    [] OTHER -> Stored(v, 1)

\* A field that is missing in the source stays 0 in the result.
Mapped(mappingSeq, record) ==
  LET size == Max({0} \cup {mappingSeq[k].dst : k \in DOMAIN mappingSeq}) + 1
  IN Loop([outs \in SUBSET Seq(Int) |->
             [m \in FieldMappings |->
                IF m.src >= Len(record) THEN outs
                ELSE UNION {{Written(o, m.dst, v) : v \in MappingResults(m, record[m.src + 1])}
                              : o \in outs}]],
          {[i \in 1..size |-> 0]}, mappingSeq)

\* field_map_curve_0 .. 149, n their number: cut to a thousandth.
field_map_curve(n, x) == Quotient(1000000 * x, 1000000 + Max({x, -x}) * (n + 1))

-----------------------------------------------------------------------------
DispatchNext(maxDispatched) ==
  \/ \E e \in RouteEntries :
       \/ AddRouteEntry(e)
       \/ dispatch_count < maxDispatched /\ Dispatch(e.id)
  \/ \E s \in StreamsOf(RouteEntries, 2) : LoadRoutesBinary(s)
  \/ DispatchClear

ArchiveNext == \E s \in StreamsOf(ArchiveEntries, 2) : ParseIndex(s)

MappingNext(maxMappings) ==
  \/ \E s \in StreamsOf(FieldMappings, 2) : LoadMappingsBinary(s)
  \/ \E m \in FieldMappings : Len(mappings) < maxMappings /\ AddMapping(m)
  \/ MappingsClear

-----------------------------------------------------------------------------
(* Properties *)

\* A mapped record has room for every field a mapping names and nothing but zeros where no source
\* field was found (field_mapper.cpp:66-85).
MappedRecordSound(mappingSeq, record) ==
  \A out \in Mapped(mappingSeq, record), f \in 0..3 :
    /\ f < Len(out) <=> f = 0 \/ \E k \in DOMAIN mappingSeq : mappingSeq[k].dst >= f
    /\ f < Len(out) /\ (\A k \in DOMAIN mappingSeq :
         mappingSeq[k].dst = f => mappingSeq[k].src >= Len(record)) => out[f + 1] = 0
=============================================================================
