------------------------------- MODULE Custom -------------------------------
(***************************************************************************)
(* Custom message types (wire/custom.go): payloads described by a schema,  *)
(* marshaled from a map of Go values and read back whole or cut short, and *)
(* registries that share the process-wide table of RDGProto.               *)
(***************************************************************************)
EXTENDS Wire

CONSTANTS MaxFields,        \* fields of a schema
          GoValues,         \* values of the map of fields
          Registries,       \* CustomMessageRegistry values, one goroutine each
          MsgTypes,
          MaxRegistrations  \* bound on the registrations begun

ASSUME CustomAssumption ==
  {MaxFields, MaxRegistrations} \subseteq Nat /\ MsgTypes \subseteq 0..255

\* A Go value: its dynamic type and its bytes.  A "number" is an int, an int64 or a
\* float64 that holds an integer in range.
ASSUME GoAssumption ==
  \A v \in GoValues :
    /\ v \in [go : {"string", "bytes", "uint32", "uint64", "number", "bool", "nil"}, bytes : Seq(0..255)]
    /\ v.go = "bool" => Len(v.bytes) = 1
    /\ v.go = "uint32" => Len(v.bytes) = 4
    /\ v.go \in {"uint64", "number"} => Len(v.bytes) = 8

-----------------------------------------------------------------------------
(* Fields and their values.                                                *)

GoValue(go, bytes) == [go |-> go, bytes |-> bytes]
Nil == GoValue("nil", <<>>)
Absent == GoValue("absent", <<>>)

\* The types of a schema; "unknown" is any other text.
Kinds == {"string", "bytes", "uint32", "uint64", "bool", "unknown"}
Numeric == {"uint32", "uint64"}
Fixed == Numeric \cup {"bool"}
Size(kind) == IF kind = "uint32" THEN 4 ELSE IF kind = "uint64" THEN 8 ELSE 1
Accepts(kind, v) == kind # "unknown" /\ v.go \in {kind} \cup IF kind \in Numeric THEN {"number"} ELSE {}

\* Mutant of zeroValue: no value of type []byte.
ZeroUntyped(kind) ==
  IF kind \in Fixed THEN GoValue(kind, Zeros(Size(kind)))
  ELSE IF kind = "string" THEN GoValue(kind, <<>>) ELSE Nil

zeroValue(kind) ==
  IF kind \in Fixed THEN GoValue(kind, Zeros(Size(kind)))
  ELSE IF kind \in {"string", "bytes"} THEN GoValue(kind, <<>>) ELSE Nil

\* Mutant of Converted: every number goes through uint32.
ConvertedShort(kind, v) ==
  IF v.go = "number" THEN (IF kind = "uint64" THEN Zeros(4) ELSE <<>>) \o Drop(v.bytes, 4) ELSE v.bytes

\* uint32(v) keeps the last four bytes of a number.
Converted(kind, v) == IF v.go = "number" /\ kind = "uint32" THEN Drop(v.bytes, 4) ELSE v.bytes

\* RDGProto codes a []byte as it codes a string.
Coding(kind) == Field(kind, IF kind = "bytes" THEN "string" ELSE kind)
writeField(kind, v) == Encode(Coding(kind), Converted(kind, v))

-----------------------------------------------------------------------------
(* One DynamicPayload, and the registries. *)

Schemas == UNION {[1..n -> [kind : Kinds, required : BOOLEAN]] : n \in 0..MaxFields}

VARIABLES
  schema, fields,   \* [1..Len(schema) -> value in the map, or Absent]
  phase,            \* "marshaling", "refused", "reading", "read" or "failed"
  payload,          \* what Marshal wrote; what Unmarshal has not read of it
  ends,             \* where each field that Marshal wrote ends
  arrived,          \* how many bytes of it arrived
  result,           \* the fields Unmarshal has set
  call, on, mine,   \* where a registry is, in which type, with which schema
  schemas, table,   \* [type -> schema, 0 is none], of each registry, of RDGProto
  begun,            \* registrations begun; each has a schema of its own
  disturbed         \* types registered twice at a time, or unregistered by
                    \* a registry that had not registered them

payloadVars == <<schema, fields, phase, payload, ends, arrived, result>>
registryVars == <<call, on, mine, schemas, table, begun, disturbed>>

DynamicPayload(s, f) ==
  /\ schema = s /\ fields = f
  /\ phase = "marshaling" /\ payload = <<>> /\ ends = <<>> /\ arrived = 0 /\ result = <<>>

PayloadInit ==
  \E s \in Schemas : \E f \in [1..Len(s) -> GoValues \cup {Absent}] : DynamicPayload(s, f)

RegistryInit ==
  /\ call = [r \in Registries |-> "idle"]
  /\ on = [r \in Registries |-> 0] /\ mine = [r \in Registries |-> 0]
  /\ schemas = [r \in Registries |-> [t \in MsgTypes |-> 0]]
  /\ table = [t \in MsgTypes |-> 0]
  /\ begun = 0 /\ disturbed = {}

-----------------------------------------------------------------------------
(* DynamicPayload. *)

\* The value written for field i.
Filled(i) == IF fields[i] = Absent THEN zeroValue(schema[i].kind) ELSE fields[i]

Writable(i) ==
  (fields[i] = Absent => ~schema[i].required) /\ Accepts(schema[i].kind, Filled(i))
Written(i) == writeField(schema[i].kind, Filled(i))

MarshalField ==
  /\ phase = "marshaling" /\ Len(ends) < Len(schema)
  /\ LET i == Len(ends) + 1
     IN IF Writable(i)
        THEN /\ payload' = payload \o Written(i)
             /\ ends' = Append(ends, Len(payload) + Len(Written(i)))
             /\ UNCHANGED phase
        ELSE phase' = "refused" /\ UNCHANGED <<payload, ends>>
  /\ UNCHANGED <<schema, fields, arrived, result>>

\* The bytes reach Unmarshal, or the first of them do.
SendPayload ==
  /\ phase = "marshaling" /\ Len(ends) = Len(schema) /\ phase' = "reading"
  /\ \E n \in 0..Len(payload) : arrived' = n /\ payload' = SubSeq(payload, 1, n)
  /\ UNCHANGED <<schema, fields, ends, result>>

\* The kind and the rule of the field Unmarshal reads next.
Expecting == schema[Len(result) + 1]
Unread == phase = "reading" /\ Len(result) < Len(schema)

readField ==
  /\ Unread /\ Readable(Coding(Expecting.kind), payload)
  /\ result' = Append(result, GoValue(Expecting.kind, ValueAt(Coding(Expecting.kind), payload)))
  /\ payload' = Beyond(Coding(Expecting.kind), payload)
  /\ UNCHANGED <<schema, fields, phase, ends, arrived>>

\* Mutant of FailRead: a required field gets its zero value, too.
FailReadLeniently ==
  /\ Unread /\ ~Readable(Coding(Expecting.kind), payload)
  /\ result' = Append(result, zeroValue(Expecting.kind))
  /\ \E n \in 0..Len(payload) : payload' = Drop(payload, n)
  /\ UNCHANGED <<schema, fields, phase, ends, arrived>>

\* How much of the data a failed read has used up is RDGProto's to say.
FailRead ==
  /\ Unread /\ ~Readable(Coding(Expecting.kind), payload)
  /\ IF Expecting.required
     THEN phase' = "failed" /\ UNCHANGED <<payload, result>>
     ELSE /\ result' = Append(result, zeroValue(Expecting.kind))
          /\ \E n \in 0..Len(payload) : payload' = Drop(payload, n)
          /\ UNCHANGED phase
  /\ UNCHANGED <<schema, fields, ends, arrived>>

EndUnmarshal ==
  /\ phase = "reading" /\ Len(result) = Len(schema)
  /\ phase' = "read"
  /\ UNCHANGED <<schema, fields, payload, ends, arrived, result>>

PayloadNext == MarshalField \/ SendPayload \/ readField \/ FailRead \/ EndUnmarshal

PayloadSpec == PayloadInit /\ [][PayloadNext]_payloadVars

-----------------------------------------------------------------------------
(* CustomMessageRegistry. *)

InRange(t) == t \in 21..249   \* CustomMessageTypeStart..CustomMessageTypeEnd

Return(r) == call' = [call EXCEPT ![r] = "idle"]

\* Mutant of BeginRegister: the schema is kept before the checks.
BeginRegisterEagerly(r, t) ==
  /\ call[r] = "idle" /\ begun < MaxRegistrations /\ begun' = begun + 1
  /\ schemas' = [schemas EXCEPT ![r][t] = begun + 1]
  /\ IF InRange(t) /\ table[t] = 0
     THEN /\ call' = [call EXCEPT ![r] = "checked"]
          /\ on' = [on EXCEPT ![r] = t] /\ mine' = [mine EXCEPT ![r] = begun + 1]
     ELSE UNCHANGED <<call, on, mine>>
  /\ UNCHANGED <<table, disturbed>>

\* Register up to its checks: it fails or goes on.
BeginRegister(r, t) ==
  /\ call[r] = "idle" /\ begun < MaxRegistrations /\ begun' = begun + 1
  /\ IF InRange(t) /\ table[t] = 0
     THEN /\ call' = [call EXCEPT ![r] = "checked"]
          /\ on' = [on EXCEPT ![r] = t] /\ mine' = [mine EXCEPT ![r] = begun + 1]
     ELSE UNCHANGED <<call, on, mine>>
  /\ UNCHANGED <<schemas, table, disturbed>>

StoreSchema(r) ==
  /\ call[r] = "checked" /\ call' = [call EXCEPT ![r] = "stored"]
  /\ schemas' = [schemas EXCEPT ![r][on[r]] = mine[r]]
  /\ UNCHANGED <<on, mine, table, begun, disturbed>>

RegisterPayloadType(r) ==
  /\ call[r] = "stored" /\ Return(r)
  /\ table' = [table EXCEPT ![on[r]] = mine[r]]
  /\ disturbed' = IF table[on[r]] = 0 THEN disturbed ELSE disturbed \cup {on[r]}
  /\ UNCHANGED <<on, mine, schemas, begun>>

DeleteSchema(r, t) ==
  /\ call[r] = "idle" /\ call' = [call EXCEPT ![r] = "deleted"]
  /\ on' = [on EXCEPT ![r] = t] /\ mine' = [mine EXCEPT ![r] = schemas[r][t]]
  /\ schemas' = [schemas EXCEPT ![r][t] = 0]
  /\ UNCHANGED <<table, begun, disturbed>>

UnregisterPayloadType(r) ==
  /\ call[r] = "deleted" /\ Return(r)
  /\ table' = [table EXCEPT ![on[r]] = 0]
  /\ disturbed' = IF table[on[r]] \in {0, mine[r]} THEN disturbed ELSE disturbed \cup {on[r]}
  /\ UNCHANGED <<on, mine, schemas, begun>>

RegistryNext ==
  \E r \in Registries :
    \/ StoreSchema(r) \/ RegisterPayloadType(r) \/ UnregisterPayloadType(r)
    \/ \E t \in MsgTypes : BeginRegister(r, t) \/ DeleteSchema(r, t)

RegistrySpec == RegistryInit /\ [][RegistryNext]_registryVars

-----------------------------------------------------------------------------
(* Properties. *)

\* ValidatePayload.
Valid ==
  \A i \in 1..Len(schema) :
    IF fields[i] = Absent THEN ~schema[i].required ELSE Accepts(schema[i].kind, fields[i])

\* What ValidatePayload lets pass can be marshaled, save an optional field of an
\* unknown type, which only Marshal looks at (custom.go:45, 256).
ValidMarshals ==
  phase = "refused" /\ Valid =>
    \E i \in 1..Len(schema) : schema[i].kind = "unknown" /\ fields[i] = Absent

\* Field i was read as it was given, or as zero if it was not; save a number
\* too large for its field, whose upper half Marshal drops (custom.go:104).
Wide(v) == IF v.go \in Numeric \cup {"number"} THEN Zeros(8 - Len(v.bytes)) \o v.bytes ELSE v.bytes
Kept(i) ==
  \/ Wide(result[i]) = Wide(Filled(i))
  \/ schema[i].kind = "uint32" /\ fields[i].go = "number" /\ SubSeq(fields[i].bytes, 1, 4) # Zeros(4)

\* Every field that arrived whole is read as it was given, whatever is cut off
\* behind it and whatever its neighbours are, and a whole payload is accepted.
ArrivedIsKept ==
  phase \in {"reading", "read", "failed"} =>
    /\ \A i \in 1..Len(result) : ends[i] <= arrived => Kept(i)
    /\ phase = "failed" => arrived < ends[Len(schema)]

\* Where the optional fields come last, a payload that is accepted has every
\* required field as it was given.  A required field behind an optional one may
\* be read from what is left of that (custom.go:71-73).
RequiredIsKept ==
  phase = "read" /\ (\A i, j \in 1..Len(schema) : i < j /\ schema[j].required => schema[i].required) =>
    \A i \in 1..Len(schema) : schema[i].required => Kept(i)

\* In the middle of a registration of t, or of its end.
Busy(r, t) == call[r] # "idle" /\ on[r] = t

\* A registry and the table of RDGProto agree on every type, unless two
\* registries registered it at a time or one unregistered what it did not
\* register: the check, the map and the table are three steps (custom.go:204-211).
TablesAgree ==
  \A t \in MsgTypes \ disturbed :
    /\ \A r \in Registries : schemas[r][t] \in {0, table[t]} \/ Busy(r, t)
    /\ table[t] = 0 \/ \E r \in Registries : schemas[r][t] = table[t] \/ Busy(r, t)

\* A map of fields that is valid is sent, and what arrives of it is kept, whatever
\* the schema, the cut and the failures of optional fields (custom.go:31-79).
CustomIsKept == ValidMarshals /\ ArrivedIsKept /\ RequiredIsKept
=============================================================================
