----------------------------- MODULE Registries -----------------------------
(* schema_registry.cpp: the layouts of records, by schema id; and             *)
(* device_registry.cpp: devices by id.                                        *)
EXTENDS RecordStream, Words

CONSTANTS SchemaIds,         \* 0 among them
          Fields,            \* [id, type, offset, size, required]: field descriptors
          OFFSET_WRAP        \* offsets and sizes are numbers below this (2^16)

ASSUME SchemaAssumption ==
  OFFSET_WRAP \in Nat \ {0} /\ \A f \in Fields : f.offset \in Nat /\ f.size \in Nat

VARIABLES schemas,           \* id -> schema
          load_count

schemaVars == <<schemas, load_count>>

SchemaTypeOK ==
  /\ DOMAIN schemas \subseteq SchemaIds \ {0}
  /\ \A i \in DOMAIN schemas : schemas[i].fields # <<>> /\ schemas[i].record_size < OFFSET_WRAP

SchemaInit == schemas = << >> /\ load_count = 0

FieldEnd(f) == f.offset + f.size

\* A body is [id, fields], fields a stream without slack. The end of a field is cut to 16 bits
\* before the maximum is taken.
RecordSize(fields) ==
  Max({0} \cup {FieldEnd(fields[k]) % OFFSET_WRAP : k \in DOMAIN fields})

RegisterRefused(id, fields) == id = 0 \/ fields = <<>>
SchemaLoads(id, s) == Whole(s, FALSE) /\ ~RegisterRefused(id, Taken(s, FALSE))

\* All or nothing; load_count counts streams read to the end, also those register refuses.
LoadBinarySchema(id, s) ==
  /\ load_count' = IF Whole(s, FALSE) THEN load_count + 1 ELSE load_count
  /\ schemas' = IF SchemaLoads(id, s)
                THEN LET fields == Taken(s, FALSE)
                         new == [fields |-> fields, record_size |-> RecordSize(fields)]
                     IN [i \in DOMAIN schemas \cup {id} |-> IF i = id THEN new ELSE schemas[i]]
                ELSE schemas

SizeOfType == "Byte" :> 1 @@ "Short" :> 2 @@ "Word" :> 4 @@ "Double" :> 8

\* The size a type asks for is asked of every field, present or not.
ValidateRecord(schema, len) ==
  /\ len >= schema.record_size
  /\ \A k \in DOMAIN schema.fields :
       LET f == schema.fields[k]
       IN /\ f.required => FieldEnd(f) <= len
          /\ f.type \in DOMAIN SizeOfType => f.size = SizeOfType[f.type]

\* The first field of the id decides; {} when it does not fit.
ExtractField(schema, field_id, len) ==
  LET named == Kept(schema.fields, {f \in ToSet(schema.fields) : f.id = field_id})
  IN IF named = <<>> \/ FieldEnd(named[1]) > len THEN {}
     ELSE {named[1].offset..FieldEnd(named[1]) - 1}

\* schema_compat_check_0 .. 99 (all the same) and schema_field_checksum_0 .. 99, n their number.
schema_compat_check(a, b) == a <= b \/ a - b < 256
schema_field_checksum(n, data) == PolynomialHash(n, 31, data)

-----------------------------------------------------------------------------
(* Properties *)

\* What is read of a record lies inside it, and a valid record has every field that is required
\* (schema_registry.cpp:68-112), although the record size that is compared first may have lost the
\* end of a field beyond 16 bits. A size that lost nothing is enough for every field.
FieldsStayInside(fields, len) ==
  LET schema == [fields |-> fields, record_size |-> RecordSize(fields)]
      named == IdsOf(fields)
      uncut == \A k \in DOMAIN fields : FieldEnd(fields[k]) < OFFSET_WRAP
  IN /\ \A i \in named : \A span \in ExtractField(schema, i, len) : span \subseteq 0..len - 1
     /\ ValidateRecord(schema, len) =>
          \A k \in DOMAIN fields :
            uncut \/ fields[k].required => ExtractField([schema EXCEPT !.fields = <<fields[k]>>],
                                                        fields[k].id, len) # {}

-----------------------------------------------------------------------------
(* Devices *)

CONSTANT Devices             \* [id, status]: ids, 0 among them

ASSUME DeviceAssumption == Devices \subseteq [id: Nat, status: Nat]

VARIABLE devices             \* id -> device

DeviceTypeOK == 0 \notin DOMAIN devices /\ \A i \in DOMAIN devices : devices[i].id = i

DeviceInit == devices = << >>

\* The id 0 is refused, which the loader does not look at. Adds as it reads.
DevicesLoad(s) == Whole(s, FALSE)
LoadRegistryBinary(s) ==
  LET taken == Taken(s, FALSE)
  IN devices' = PutAll(devices, Kept(taken, {d \in ToSet(taken) : d.id # 0}))

RegisterDevice(d) == d.id # 0 /\ devices' = PutAll(devices, <<d>>)

UpdateStatus(id, status) ==
  id \in DOMAIN devices /\ devices' = [devices EXCEPT ![id].status = status]

\* device_validate_id_0 .. 74, n its number.
device_validate_id(n, id) == id # {} /\ Shr(id, n % 16) # 0..31

DeviceNext ==
  \/ \E d \in Devices : RegisterDevice(d) \/ UpdateStatus(d.id, d.status)
  \/ \E s \in StreamsOf(Devices, 2) : LoadRegistryBinary(s)
=============================================================================
