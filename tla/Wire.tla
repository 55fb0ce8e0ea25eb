-------------------------------- MODULE Wire --------------------------------
(***************************************************************************)
(* The payloads of the wire package: for every message type the fields its *)
(* Marshal writes and the fields its Unmarshal reads, each in the order of *)
(* the code, over the primitives of RDGProto on bytes.  A payload is       *)
(* marshaled, and reaches Unmarshal whole, cut short, or followed by       *)
(* fields of a newer peer.  Values differ from field to field; one byte is *)
(* a short text, two are one beyond the 4096 bytes of identity_objects.go. *)
(***************************************************************************)
EXTENDS Naturals, Sequences, SequencesExt

CONSTANTS Rows,   \* numbers of users or objects in a list, within the limits of all lists
          Types   \* the message types to look at

-----------------------------------------------------------------------------
(* A field: its name, its coding, and how many fields Unmarshal leaves out  *)
(* when no data is left before it (0: it fails).                            *)

FieldOf(name, kind, skip, loose, item) ==
  [name |-> name, kind |-> kind, skip |-> skip, loose |-> loose, item |-> item]
Field(name, kind) == FieldOf(name, kind, 0, FALSE, <<>>)
S(name) == Field(name, "string")
Y(name) == Field(name, "byte")
B(name) == Field(name, "bool")
U4(name) == Field(name, "uint32")
U8(name) == Field(name, "uint64")
J(name) == Field(name, "json")          \* JSON text in a string
T(name) == Field(name, "text")          \* a string that is read only if it is short
M(name) == Field(name, "metadata")      \* JSON that is written and read only if it is short
JE(name) == Field(name, "jsonOrEmpty")  \* the same, or an empty string
Has(name) == Field(name, "has")         \* two more fields follow if it is true
ListOf(name, item) == FieldOf(name, "count", 0, FALSE, item)

All == 99
Skip(f, n) == FieldOf(f.name, f.kind, n, f.loose, f.item)      \* if r.Len() > 0 { ... }
Rest(f) == Skip(f, All)                                        \* if r.Len() == 0 { return }
Loose(f) == FieldOf(f.name, f.kind, f.skip, TRUE, f.item)      \* its error is dropped

Codec(write, read) == [write |-> write, read |-> read, strict |-> FALSE]
Strict(codec) == [write |-> codec.write, read |-> codec.read, strict |-> TRUE]   \* trailing data is an error

-----------------------------------------------------------------------------
(* messages.go *)

AuthRequestPayload == Codec(
  <<Y("AuthType"), S("Username"), S("Password"), S("ReMachID"), S("EMachID"), S("Token"), S("ServiceID")>>,
  <<Y("AuthType"), S("Username"), S("Password"), S("ReMachID"), S("EMachID"), S("Token"), Rest(S("ServiceID"))>>)
ServiceCredentialSetPayload == Codec(
  <<S("ServiceID"), S("Password")>>, <<S("ServiceID"), S("Password")>>)
ServiceCredentialResponsePayload == Codec(
  <<B("Success"), S("ServiceID"), B("Enabled"), S("Message")>>,
  <<B("Success"), S("ServiceID"), B("Enabled"), S("Message")>>)
PasswordResetRequestPayload == Codec(<<S("Identifier")>>, <<S("Identifier")>>)
PasswordResetConfirmPayload == Codec(
  <<S("Token"), S("Password")>>, <<S("Token"), S("Password")>>)
PasswordChangeRequestPayload == Codec(
  <<S("CurrentPassword"), S("NewPassword")>>, <<S("CurrentPassword"), S("NewPassword")>>)
PasswordChangeResponsePayload == Codec(
  <<B("Success"), S("Message")>>, <<B("Success"), S("Message")>>)
PublisherKeySetPayload == Codec(
  <<S("Name"), S("PublicKey")>>, <<S("Name"), S("PublicKey")>>)
PublisherKeyResponsePayload == Codec(
  <<B("Success"), S("Fingerprint"), S("Message")>>, <<B("Success"), S("Fingerprint"), S("Message")>>)
\* Mutant of AuthResponsePayload: read in the order of RegisterResponsePayload.
AuthResponseSwapped == Codec(
  <<B("Success"), S("Token"), S("UserID"), U8("ExpiresAt"), S("Message")>>,
  <<B("Success"), S("UserID"), S("Token"), U8("ExpiresAt"), S("Message")>>)
AuthResponsePayload == Codec(
  <<B("Success"), S("Token"), S("UserID"), U8("ExpiresAt"), S("Message")>>,
  <<B("Success"), S("Token"), S("UserID"), U8("ExpiresAt"), S("Message")>>)
MFARequiredPayload == Codec(
  <<S("MFAType"), S("Hint"), S("ChallengeID")>>, <<S("MFAType"), S("Hint"), S("ChallengeID")>>)
MFASubmitPayload == Codec(
  <<S("ChallengeID"), S("Code")>>, <<S("ChallengeID"), S("Code")>>)
SessionValidatePayload == Codec(
  <<S("Token"), S("ReMachID"), S("EMachID")>>, <<S("Token"), S("ReMachID"), S("EMachID")>>)
\* Mutant of ErrorPayload: the last error is dropped.
ErrorUnchecked == Codec(<<U4("Code"), S("Message")>>, <<U4("Code"), Loose(S("Message"))>>)
ErrorPayload == Codec(<<U4("Code"), S("Message")>>, <<U4("Code"), S("Message")>>)
LogoutPayload == Codec(<<S("Token")>>, <<S("Token")>>)
LogoutResponsePayload == Codec(
  <<B("Success"), S("Message")>>, <<B("Success"), S("Message")>>)
NewDeviceMFAPayload == Codec(
  <<S("Email"), S("ChallengeID"), S("DeviceInfo")>>, <<S("Email"), S("ChallengeID"), S("DeviceInfo")>>)
RegisterRequestPayload == Codec(
  <<S("Username"), S("Email"), S("Password"), S("RealName"), S("Country")>>,
  <<S("Username"), S("Email"), S("Password"), S("RealName"), S("Country")>>)
RegisterResponsePayload == Codec(
  <<B("Success"), S("UserID"), S("Message")>>, <<B("Success"), S("UserID"), S("Message")>>)
VerifyEmailRequestPayload == Codec(<<S("Token")>>, <<S("Token")>>)
VerifyEmailResponsePayload == Codec(
  <<B("Success"), S("Username"), S("Message")>>, <<B("Success"), S("Username"), S("Message")>>)
ResendVerificationPayload == Codec(<<S("Email")>>, <<S("Email")>>)
TOTPSetupRequestPayload == Codec(
  <<S("Action"), S("Code")>>, <<S("Action"), S("Code")>>)
TOTPSetupResponsePayload == Codec(
  <<B("Success"), S("Secret"), S("ProvisioningURI"), S("Message"), B("TOTPEnabled")>>,
  <<B("Success"), S("Secret"), S("ProvisioningURI"), S("Message"), B("TOTPEnabled")>>)
PingPayload == Codec(
  <<S("TargetUser"), S("Message"), U8("Timestamp")>>, <<S("TargetUser"), S("Message"), U8("Timestamp")>>)
PongPayload == Codec(
  <<S("FromUser"), S("Message"), U8("OrigTimestamp"), U8("Timestamp")>>,
  <<S("FromUser"), S("Message"), U8("OrigTimestamp"), U8("Timestamp")>>)
DirectMessagePayload == Codec(
  <<S("TargetUser"), S("Message"), U8("Timestamp")>>, <<S("TargetUser"), S("Message"), U8("Timestamp")>>)

-----------------------------------------------------------------------------
(* service.go *)

ServiceAuthPayload == Codec(
  <<S("ServiceID"), S("Secret"), J("Endpoints"), S("Name"), S("Type"), S("Description"),
    J("Capabilities"), S("PublisherUserID"), S("PublisherPrivateKey")>>,
  <<S("ServiceID"), S("Secret"), JE("Endpoints"), Rest(S("Name")), S("Type"), S("Description"),
    Rest(JE("Capabilities")), Rest(S("PublisherUserID")), Rest(Loose(S("PublisherPrivateKey")))>>)
ServiceAuthResponsePayload == Codec(
  <<B("Success"), S("ServiceID"), S("Message")>>, <<B("Success"), S("ServiceID"), S("Message")>>)
ServiceHeartbeatPayload == Codec(
  <<S("ServiceID"), U8("Timestamp")>>, <<S("ServiceID"), U8("Timestamp")>>)
ServiceMessagePayload == Codec(
  <<S("MessageID"), S("FromService"), S("ToService"), S("Endpoint"), S("Payload"), S("ReplyTo")>>,
  <<S("MessageID"), S("FromService"), S("ToService"), S("Endpoint"), S("Payload"), S("ReplyTo")>>)
ServiceResponsePayload == Codec(
  <<S("MessageID"), B("Success"), S("Payload"), S("Error")>>,
  <<S("MessageID"), B("Success"), S("Payload"), S("Error")>>)
ServiceListPayload == Codec(<<S("TypeFilter")>>, <<S("TypeFilter")>>)
ServiceListResponsePayload == Codec(<<J("Services")>>, <<J("Services")>>)
ClientToServicePayload == Codec(
  <<S("MessageID"), S("ToService"), S("Endpoint"), S("Payload")>>,
  <<S("MessageID"), S("ToService"), S("Endpoint"), S("Payload")>>)
ServiceToClientPayload == Codec(
  <<S("MessageID"), S("FromService"), S("ToUser"), S("Endpoint"), S("Payload"), S("ReplyTo")>>,
  <<S("MessageID"), S("FromService"), S("ToUser"), S("Endpoint"), S("Payload"), S("ReplyTo")>>)

-----------------------------------------------------------------------------
(* agent.go, organizations.go, resource_access.go, admin.go and             *)
(* identity_objects.go.                                                     *)

AgentRegisterRequestPayload == Codec(
  <<S("Name"), S("Description")>>, <<S("Name"), S("Description")>>)
AgentRegisterResponsePayload == Codec(
  <<B("Success"), S("AgentID"), S("APIKey"), S("Message")>>,
  <<B("Success"), S("AgentID"), S("APIKey"), S("Message")>>)
OrganizationRequestPayload == Codec(<<J("OrganizationRequest")>>, <<J("OrganizationRequest")>>)
OrganizationResponsePayload == Codec(<<J("OrganizationResponse")>>, <<J("OrganizationResponse")>>)
ResourceAccessRequestPayload == Codec(
  <<S("Action"), S("ServiceID"), S("UserID"), S("Role")>>,
  <<S("Action"), S("ServiceID"), S("UserID"), S("Role")>>)
ResourceAccessResponsePayload == Codec(
  <<B("Success"), S("Message")>>, <<B("Success"), S("Message")>>)

\* Mutant of AdminRequestPayload: the error of the second field is overwritten.
AdminRequestUnchecked == Codec(
  <<S("Action"), S("UserID"), B("Value"), S("Role"), S("Data")>>,
  <<S("Action"), Loose(S("UserID")), B("Value"), Rest(S("Role")), Rest(S("Data"))>>)
AdminRequestPayload == Codec(
  <<S("Action"), S("UserID"), B("Value"), S("Role"), S("Data")>>,
  <<S("Action"), S("UserID"), B("Value"), Rest(S("Role")), Rest(S("Data"))>>)
AdminUserWritten ==
  <<S("ID"), S("Username"), S("Email"), B("EmailVerified"), B("Active"), B("IsAdmin"),
    U8("CreatedAt"), S("Role"), S("AccountStatus")>>
AdminUserRead ==
  <<S("ID"), S("Username"), S("Email"), B("EmailVerified"), B("Active"), B("IsAdmin"),
    U8("CreatedAt"), Skip(S("Role"), 2), S("AccountStatus")>>
AdminResponsePayload == Codec(
  <<B("Success"), B("IsAdmin"), S("Message"), ListOf("Users", AdminUserWritten), S("RBAC")>>,
  <<B("Success"), B("IsAdmin"), S("Message"), ListOf("Users", AdminUserRead),
    Skip(Loose(S("RBAC")), 1)>>)

IdentityObject ==
  <<T("ID"), T("Owner"), T("Service"), T("Kind"), T("ExternalID"), T("Name"), M("Metadata"),
    Has("Server"), T("MachineID"), T("Platform"), B("Revoked"), U8("Updated")>>
IdentityObjectRequestPayload == Strict(Codec(
  <<T("Action"), T("Owner"), T("Service"), T("Kind"), T("ID"), T("ExternalID"), T("Name"),
    T("After"), M("Metadata"), Has("Server"), T("MachineID"), T("Platform")>>,
  <<T("Action"), T("Owner"), T("Service"), T("Kind"), T("ID"), T("ExternalID"), T("Name"),
    T("After"), M("Metadata"), Has("Server"), T("MachineID"), T("Platform")>>))
\* Mutant of IdentityObjectResponsePayload: trailing data is let pass.
IdentityResponseOpen == Codec(
  <<B("Success"), T("Message"), ListOf("Objects", IdentityObject)>>,
  <<B("Success"), T("Message"), ListOf("Objects", IdentityObject)>>)
IdentityObjectResponsePayload == Strict(Codec(
  <<B("Success"), T("Message"), ListOf("Objects", IdentityObject)>>,
  <<B("Success"), T("Message"), ListOf("Objects", IdentityObject)>>))

-----------------------------------------------------------------------------
(* The payload registered for each message type. *)

RegisterPayloadTypes ==
  [AuthRequest |-> AuthRequestPayload, AuthResponse |-> AuthResponsePayload,
   AuthMFARequired |-> MFARequiredPayload, AuthMFASubmit |-> MFASubmitPayload,
   AuthMFAResponse |-> AuthResponsePayload, NewDeviceMFASubmit |-> MFASubmitPayload,
   AuthLogout |-> LogoutPayload, AuthLogoutResponse |-> LogoutResponsePayload,
   NewDeviceMFA |-> NewDeviceMFAPayload, SessionValidate |-> SessionValidatePayload,
   RegisterRequest |-> RegisterRequestPayload, RegisterResponse |-> RegisterResponsePayload,
   VerifyEmailRequest |-> VerifyEmailRequestPayload,
   VerifyEmailResponse |-> VerifyEmailResponsePayload,
   ResendVerification |-> ResendVerificationPayload,
   TOTPSetupRequest |-> TOTPSetupRequestPayload, TOTPSetupResponse |-> TOTPSetupResponsePayload,
   Error |-> ErrorPayload, Ping |-> PingPayload, Pong |-> PongPayload,
   DirectMessage |-> DirectMessagePayload,
   ServiceCredentialSet |-> ServiceCredentialSetPayload,
   ServiceCredentialResponse |-> ServiceCredentialResponsePayload,
   PasswordResetRequest |-> PasswordResetRequestPayload,
   PasswordResetConfirm |-> PasswordResetConfirmPayload,
   PasswordChangeRequest |-> PasswordChangeRequestPayload,
   PasswordChangeResponse |-> PasswordChangeResponsePayload,
   PublisherKeySet |-> PublisherKeySetPayload,
   PublisherKeyResponse |-> PublisherKeyResponsePayload,
   AgentRegisterRequest |-> AgentRegisterRequestPayload,
   AgentRegisterResponse |-> AgentRegisterResponsePayload,
   OrganizationRequest |-> OrganizationRequestPayload,
   OrganizationResponse |-> OrganizationResponsePayload,
   ResourceAccessRequest |-> ResourceAccessRequestPayload,
   ResourceAccessResponse |-> ResourceAccessResponsePayload,
   AdminRequest |-> AdminRequestPayload, AdminResponse |-> AdminResponsePayload,
   IdentityObjectRequest |-> IdentityObjectRequestPayload,
   IdentityObjectResponse |-> IdentityObjectResponsePayload]

RegisterServicePayloadTypes ==
  [ServiceAuth |-> ServiceAuthPayload, ServiceAuthResponse |-> ServiceAuthResponsePayload,
   ServiceHeartbeat |-> ServiceHeartbeatPayload, ServiceMessage |-> ServiceMessagePayload,
   ServiceResponse |-> ServiceResponsePayload, ServiceList |-> ServiceListPayload,
   ServiceListResponse |-> ServiceListResponsePayload,
   ClientToService |-> ClientToServicePayload, ServiceToClient |-> ServiceToClientPayload]

NewRegistry ==
  [t \in DOMAIN RegisterPayloadTypes \cup DOMAIN RegisterServicePayloadTypes |->
     IF t \in DOMAIN RegisterPayloadTypes THEN RegisterPayloadTypes[t]
                                          ELSE RegisterServicePayloadTypes[t]]

ASSUME WireAssumption == Types \subseteq DOMAIN NewRegistry /\ Rows \subseteq 0..100

-----------------------------------------------------------------------------
(* RDGProto.  A value is its bytes. *)

Zeros(n) == [i \in 1..n |-> 0]
ValidJSON(v) == v # <<>> /\ v[1] >= 100   \* 100 stands for null

\* The i-th field written, with a value of its own, long or not, or the zero value.
ValueOf(f, i, differs, long, n) ==
  IF f.kind = "count" THEN <<0, 0, 0, n>>
  ELSE IF f.kind \in {"string", "text"} THEN IF long THEN <<i, i>> ELSE IF differs THEN <<i>> ELSE <<>>
  ELSE IF f.kind \in {"json", "metadata"}
  THEN IF long THEN <<100 + i, i>> ELSE IF differs THEN <<100 + i>> ELSE <<100>>
  ELSE IF f.kind \in {"bool", "has"} THEN IF differs THEN <<1>> ELSE <<0>>
  ELSE IF f.kind = "byte" THEN IF differs THEN <<i>> ELSE <<0>>
  ELSE IF f.kind = "uint32" THEN IF differs THEN <<0, 0, 0, i>> ELSE Zeros(4)
  ELSE IF differs THEN <<0, 0, 0, 0, 0, 0, 0, i>> ELSE Zeros(8)

Prefixed(f) == f.kind \in {"string", "text", "json", "jsonOrEmpty", "metadata"}

Encode(f, v) == (IF Prefixed(f) THEN <<Len(v)>> ELSE <<>>) \o v

\* The length of the value of f at the head of d, or of the data it lacks.
Width(f, d) ==
  IF Prefixed(f) THEN IF d = <<>> THEN 0 ELSE d[1]
  ELSE IF f.kind \in {"count", "uint32"} THEN 4
  ELSE IF f.kind = "uint64" THEN 8 ELSE 1

Offset(f) == IF Prefixed(f) THEN 1 ELSE 0
Readable(f, d) == Len(d) >= Offset(f) + Width(f, d)
ValueAt(f, d) == SubSeq(d, Offset(f) + 1, Offset(f) + Width(f, d))
Decodes(f, d) ==
  /\ Readable(f, d)
  /\ f.kind \in {"text", "metadata"} => Len(ValueAt(f, d)) <= 1
  /\ f.kind \in {"json", "metadata"} => ValidJSON(ValueAt(f, d))
  /\ f.kind = "jsonOrEmpty" => ValueAt(f, d) = <<>> \/ ValidJSON(ValueAt(f, d))
Beyond(f, d) == SubSeq(d, Offset(f) + Width(f, d) + 1, Len(d))

Drop(s, n) == SubSeq(s, n + 1, Len(s))

-----------------------------------------------------------------------------

VARIABLES type, rows, full,
          todo,     \* the fields still to be written, then those to be read
          written,  \* names and values Marshal wrote
          data,     \* their coding; what Unmarshal has not read of it
          sent,     \* "marshaling", "whole", "cut" or "longer"
          got,      \* names and values Unmarshal assigned
          status,   \* "open", "ok", "error", or "refused" by Marshal
          marks,    \* history: what was left to be written, and how long the
                    \* data was, before each field and at the end
          received   \* history: how many bytes arrived

vars == <<type, rows, full, todo, written, data, sent, got, status, marks, received>>

\* Which fields differ from zero: all, none, or one, or one is long and the
\* others are not zero.
Fills == {0, All} \cup (1..12) \cup (101..112)
IsFull(i) == full >= All \/ full = i
IsLong(i) == full = 100 + i

\* A payload of type t, with n rows in its lists and the fields of f filled.
Payload(t, n, f) ==
  /\ type = t /\ rows = n /\ full = f
  /\ todo = NewRegistry[t].write
  /\ written = <<>> /\ data = <<>> /\ sent = "marshaling" /\ got = <<>> /\ status = "open"
  /\ marks = <<[todo |-> NewRegistry[t].write, at |-> 0]>> /\ received = 0

Init == \E t \in Types, n \in Rows, f \in Fills : Payload(t, n, f)

\* The fields of n rows.
Repeat(item, n) == [i \in 1..(n * Len(item)) |-> item[((i - 1) % Len(item)) + 1]]

\* The fields that follow f once its value is known.
Following(f, v, rest) ==
  IF f.kind = "count" THEN Repeat(f.item, v[4]) \o rest
  ELSE IF f.kind = "has" /\ v = <<0>> THEN Drop(rest, 2)
  ELSE rest

Marshal ==
  /\ sent = "marshaling" /\ status = "open" /\ todo # <<>>
  /\ LET f == Head(todo)
         i == Len(written) + 1
         v == ValueOf(f, i, IsFull(i), IsLong(i), rows)
     IN IF f.kind = "metadata" /\ IsLong(i)
        THEN status' = "refused" /\ UNCHANGED <<written, data, todo, marks>>
        ELSE /\ written' = Append(written, <<f.name, v>>)
             /\ data' = data \o Encode(f, v)
             /\ todo' = Following(f, v, Tail(todo))
             /\ marks' = Append(marks, [todo |-> todo', at |-> Len(data')])
             /\ UNCHANGED status
  /\ UNCHANGED <<type, rows, full, sent, got, received>>

Send ==
  /\ sent = "marshaling" /\ todo = <<>>
  /\ todo' = NewRegistry[type].read
  /\ \/ sent' = "whole" /\ UNCHANGED data
     \/ sent' = "longer" /\ data' = data \o <<1, 7>>
     \/ sent' = "cut" /\ \E n \in 0..(Len(data) - 1) : data' = SubSeq(data, 1, n)
  /\ received' = Len(data')
  /\ UNCHANGED <<type, rows, full, written, got, status, marks>>

Reading == sent # "marshaling" /\ status = "open" /\ todo # <<>>
AtEnd(f) == f.skip > 0 /\ data = <<>>

LeaveOut ==
  /\ Reading /\ AtEnd(Head(todo))
  /\ todo' = Drop(todo, Head(todo).skip)
  /\ UNCHANGED <<type, rows, full, written, data, sent, got, status, marks, received>>

ReadField ==
  /\ Reading /\ ~AtEnd(Head(todo))
  /\ LET f == Head(todo)
         v == ValueAt(f, data)
     IN /\ Decodes(f, data)
        /\ got' = Append(got, <<f.name, v>>)
        /\ data' = Beyond(f, data)
        /\ todo' = Following(f, v, Tail(todo))
  /\ UNCHANGED <<type, rows, full, written, sent, status, marks, received>>

FailField ==
  /\ Reading /\ ~AtEnd(Head(todo))
  /\ LET f == Head(todo)
     IN /\ ~Decodes(f, data)
        /\ IF f.loose THEN todo' = Tail(todo) /\ UNCHANGED status
                      ELSE status' = "error" /\ UNCHANGED todo
  /\ UNCHANGED <<type, rows, full, written, data, sent, got, marks, received>>

Finish ==
  /\ sent # "marshaling" /\ status = "open" /\ todo = <<>>
  /\ status' = IF NewRegistry[type].strict /\ data # <<>> THEN "error" ELSE "ok"
  /\ UNCHANGED <<type, rows, full, todo, written, data, sent, got, marks, received>>

Next == Marshal \/ Send \/ LeaveOut \/ ReadField \/ FailField \/ Finish

Spec == Init /\ [][Next]_vars

-----------------------------------------------------------------------------
(* Properties. *)

Identity == {"IdentityObjectRequest", "IdentityObjectResponse"}
Overlong == type \in Identity /\ \E k \in DOMAIN written : Len(written[k][2]) = 2

\* What Marshal writes, Unmarshal reads back, field by field, whatever fields
\* are empty or long and however many rows there are (wire/messages_test.go tries
\* six of the payloads).  The exception: the Marshals of the identity payloads
\* check the length of their metadata but not of their strings, which their
\* Unmarshals refuse beyond 4096 bytes.
RoundTrip ==
  sent = "whole" /\ status # "open" =>
    IF Overlong THEN status = "error" ELSE status = "ok" /\ got = written

\* Data that is cut short either fails or gives the fields before the cut: no
\* field is read from the bytes of another.
CutReadsPrefix == sent = "cut" /\ status = "ok" => IsPrefix(got, written)

\* A cut inside a field is never taken for an older peer, save in the two
\* fields whose error the code drops (wire/service.go:111, wire/admin.go:185).
CutFails ==
  sent = "cut" /\ status = "ok" /\ data # <<>> =>
    written[Len(got) + 1][1] \in {"PublisherPrivateKey", "RBAC"}

\* Fields a newer peer appends change nothing, and the identity payloads, which
\* take no others, refuse them.
LongerIsSame ==
  sent = "longer" /\ status # "open" =>
    IF type \in Identity
    THEN status = "error" ELSE status = "ok" /\ got = written

\* What arrives whole, with or without fields of a newer peer behind it, is what
\* was sent or is refused for a reason.
WholeIsKept == RoundTrip /\ LongerIsSame

\* What arrives cut short shifts no field and passes for no older peer's.
CutIsNoticed == CutReadsPrefix /\ CutFails
=============================================================================
