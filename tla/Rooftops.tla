------------------------------ MODULE Rooftops ------------------------------
(***************************************************************************)
(* The rooftop (branch) documents and the writes of the two handlers that  *)
(* change them (rooftops/rooftops.service.ts). Both handlers first look    *)
(* for a collision of the slug `rooftopId` or of the code, an await before *)
(* they write. That can only refuse a request: what was free when they     *)
(* looked may be taken when they write, and the unique indexes decide. So  *)
(* the write may happen whenever the indexes allow it. Names may coincide. *)
(* Address, phone, brands and time zone are left out.                      *)
(***************************************************************************)
EXTENDS Naturals, Sequences, FiniteSets

CONSTANTS
  Slug,              \* values of rooftopId
  BranchCode,        \* values of code
  BranchName,        \* values of name
  Seeded,            \* the rooftops there are at first, a sequence of documents
  Offered,           \* the rooftops that requests create
  Patches,           \* the updates that requests ask for: one field, one value
  MaxRooftops,       \* bound: documents
  MaxRooftopWrites   \* bound: writes

VARIABLES
  rooftops,  \* the collection: a document or NoRooftop, by object id
  writes     \* writes so far

rooftopVars == <<rooftops, writes>>

RooftopId == 1 .. MaxRooftops
Rooftop == [rooftopId : Slug, code : BranchCode, name : BranchName, isActive : BOOLEAN]
NoRooftop == [rooftopId |-> "none"]

\* What the data transfer objects let through: whole documents and typed fields.
Patch ==
  [field : {"rooftopId"}, value : Slug] \cup [field : {"code"}, value : BranchCode]
    \cup [field : {"name"}, value : BranchName] \cup [field : {"isActive"}, value : BOOLEAN]

ASSUME RooftopsAssumption ==
  /\ MaxRooftops \in Nat /\ MaxRooftopWrites \in Nat
  /\ Seeded \in Seq(Rooftop) /\ Offered \subseteq Rooftop /\ Patches \subseteq Patch

Stored == {d \in RooftopId : rooftops[d] # NoRooftop}
ActiveRooftops == {rooftops[d] : d \in {e \in Stored : rooftops[e].isActive}}

\* findOne({ rooftopId }): NoRooftop when there is none.
RooftopOf(slug) ==
  IF \E d \in Stored : rooftops[d].rooftopId = slug
  THEN rooftops[CHOOSE d \in Stored : rooftops[d].rooftopId = slug]
  ELSE NoRooftop

\* The unique indexes on rooftopId and code.
Indexed(stored) ==
  \A d, e \in RooftopId :
    (d # e /\ stored[d] # NoRooftop /\ stored[e] # NoRooftop)
      => stored[d].rooftopId # stored[e].rooftopId /\ stored[d].code # stored[e].code

RooftopsInit ==
  /\ rooftops = [d \in RooftopId |-> IF d \in DOMAIN Seeded THEN Seeded[d] ELSE NoRooftop]
  /\ writes = 0

SaveRooftop(d, rooftop) ==
  /\ writes < MaxRooftopWrites
  /\ rooftops' = [rooftops EXCEPT ![d] = rooftop]
  /\ Indexed(rooftops')
  /\ writes' = writes + 1

CreateRooftop(rooftop) ==
  \E d \in RooftopId : rooftops[d] = NoRooftop /\ SaveRooftop(d, rooftop)

\* findOneAndUpdate({ rooftopId }, { $set: dto })
UpdateRooftop(slug, patch) ==
  \E d \in Stored :
    /\ rooftops[d].rooftopId = slug
    /\ SaveRooftop(d, [rooftops[d] EXCEPT ![patch.field] = patch.value])

RooftopsNext ==
  \/ \E rooftop \in Offered : CreateRooftop(rooftop)
  \/ \E slug \in Slug, patch \in Patches : UpdateRooftop(slug, patch)
=============================================================================
