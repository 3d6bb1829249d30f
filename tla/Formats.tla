------------------------------ MODULE Formats ------------------------------
(***************************************************************************)
(* How the converters of zowpy carry values between the attribute objects  *)
(* of the application and the protobuf messages of the wire.               *)
(*                                                                         *)
(* A part is a function from field names to values: "none" is Python's     *)
(* None on one side and a field that is not set on the other, "zero" is a  *)
(* value that is set and false ("", 0, False, []), "some" is a value the   *)
(* application gave and "own" is one the client made up (a constant, the   *)
(* time, a key, a hash); "other" is a number of an enumeration for which   *)
(* the client has no name.  An object is a function from part names to     *)
(* parts: nested messages are parts of their own.                          *)
(***************************************************************************)
EXTENDS TLC, FiniteSets

Value == {"none", "zero", "some", "own", "other"}
Set   == {"some", "own", "other"}

(* What an assignment or a read that raises an exception gives. *)
Raises == "raises"

(***************************************************************************)
(* The rules of a single field.  To the wire: a plain assignment raises    *)
(* for None, "x or ''" sends an empty value, the usual guards are          *)
(* "is not None" and the truth of the value, and a name that the schema    *)
(* does not have raises as soon as it is assigned.  From the wire:         *)
(* HasField, or a plain read, which gives the default.                     *)
(***************************************************************************)
Rule(none, zero) == ("none" :> none) @@ ("zero" :> zero) @@ [v \in Set |-> v]

Always   == Rule(Raises, "zero")
OrEmpty  == Rule("zero", "zero")
IfGiven  == Rule("none", "zero")
IfTrue   == Rule("none", "none")
HasField == IfGiven
Plain    == OrEmpty
OrOwn    == Rule("own", "own")
Ignored  == [v \in Value |-> "none"]
Made     == [v \in Value |-> "own"]
Broken   == [v \in Value |-> Raises]
Unknown  == ("none" :> "none") @@ Broken
Misread  == ("none" :> "none") @@ ("zero" :> "none") @@ Broken

(***************************************************************************)
(* A table says for every field of the target where its value comes from   *)
(* and by which rule.  Tables are put together with @@.                    *)
(***************************************************************************)
By(rule, fields)       == [f \in fields |-> [from |-> f, by |-> rule]]
Renamed(rule, to, src) == to :> [from |-> src, by |-> rule]

PartOf(object, p)    == IF p \in DOMAIN object THEN object[p] ELSE <<>>
ValueOf(part, field) == IF field \in DOMAIN part THEN part[field] ELSE "none"

Convert(table, part) == [f \in DOMAIN table |-> table[f].by[ValueOf(part, table[f].from)]]

(* The parts of an object that the tables name, converted by them. *)
ConvertAll(tables, object) ==
    [p \in DOMAIN object \cap DOMAIN tables |-> Convert(tables[p], object[p])]

(* Some field of some part of an object could not be converted. *)
Fails(object) == \E p \in DOMAIN object : \E f \in DOMAIN object[p] : object[p][f] = Raises

Without(object, parts) == [p \in DOMAIN object \ parts |-> object[p]]

(* A part in which every field has the same value. *)
All(fields, v) == [f \in fields |-> v]

(* A part and those that differ from it in one field. *)
OneVaries(part) ==
    {part} \cup {[part EXCEPT ![f] = v] : f \in DOMAIN part, v \in {"none", "zero", "some"}}
=============================================================================
