----------------------------- MODULE ConfigLoad -----------------------------
(***************************************************************************)
(* CPoolFrontendConfig::load and what it calls (src/src/config.cpp): one   *)
(* pass over the document, with an error that every function is handed.    *)
(* A field is skipped once an error is known; an object or array that must *)
(* be there is looked at all the same, replaces the error and ends the     *)
(* load method it is in, while the callers of that method go on.           *)
(*                                                                         *)
(* Parts is the order in which the methods look at the document; the one   *)
(* of the code is in ConfigFields.                                         *)
(***************************************************************************)
EXTENDS Naturals, Sequences

CONSTANTS
  Place,      \* the places of a document
  Parts,      \* the load methods' steps, one sequence for every call
  Documents,  \* the documents to be read: what is absent or mistyped in each
  Sibling(_, _)  \* the place of another member of the same object

Kinds == {"required", "optional", "shareDiff", "document", "array", "addresses"}
Step == [place : Place, kind : Kinds]
Faults == {"absent", "mistyped"}

ASSUME PartsAssumption == Parts \in Seq(Seq(Step))
ASSUME DocumentsAssumption ==
  \A d \in Documents : DOMAIN d \subseteq Place /\ \A p \in DOMAIN d : d[p] \in Faults

VARIABLES
  doc,        \* the document
  part, step, \* the next step
  error,      \* the accumulated EErrorType
  described,  \* the place errorDescription names
  read,       \* the members of the configuration set from the document
  defaulted,  \* those set to a default value
  result      \* what load() returned

vars == <<doc, part, step, error, described, read, defaulted, result>>

TypeOK ==
  /\ DOMAIN doc \subseteq Place /\ \A p \in DOMAIN doc : doc[p] \in Faults
  /\ part \in 1..(Len(Parts) + 1) /\ step \in Nat \ {0}
  /\ error \in {"EOk", "ENotExists", "ETypeMismatch"}
  /\ described \in Place \cup {"none"}
  /\ read \subseteq Place /\ defaulted \subseteq Place
  /\ result \in {"running", "true", "false"}

\* resize() leaves the elements of the vectors zero and empty.
Init ==
  /\ doc \in Documents
  /\ part = 1 /\ step = 1
  /\ error = "EOk" /\ described = "none"
  /\ read = {} /\ defaulted = {}
  /\ result = "running"

-----------------------------------------------------------------------------
InPart == result = "running" /\ part <= Len(Parts)
At(kinds) == InPart /\ step <= Len(Parts[part]) /\ Parts[part][step].kind \in kinds
Here == Parts[part][step].place

setErrorDescription(kind) == error' = kind /\ described' = Here
NoError == UNCHANGED <<error, described>>
Content(place) == IF place \in DOMAIN doc THEN doc[place] ELSE "good"
Read == read' = read \cup {Here} /\ UNCHANGED defaulted
SetDefault == defaulted' = defaulted \cup {Here} /\ UNCHANGED read
GoOn == step' = step + 1 /\ UNCHANGED <<doc, part, result>>

Fields == {"required", "optional"}

\* if (*validAcc != EOk) return;
Skip ==
  /\ At(Fields) /\ error # "EOk"
  /\ GoOn /\ NoError /\ UNCHANGED <<read, defaulted>>

ReadField ==
  /\ At(Fields) /\ error = "EOk" /\ Content(Here) = "good"
  /\ Read
  /\ GoOn /\ NoError

\* Mutation: the variant without a default value is called.
DefaultRefused ==
  /\ At({"optional"}) /\ error = "EOk" /\ Content(Here) = "absent"
  /\ setErrorDescription("ENotExists")
  /\ GoOn /\ UNCHANGED <<read, defaulted>>

Default ==
  /\ At({"optional"}) /\ error = "EOk" /\ Content(Here) = "absent"
  /\ SetDefault
  /\ GoOn /\ NoError

FieldMissing ==
  /\ At({"required"}) /\ error = "EOk" /\ Content(Here) = "absent"
  /\ setErrorDescription("ENotExists")
  /\ GoOn /\ UNCHANGED <<read, defaulted>>

FieldMistyped ==
  /\ At(Fields) /\ error = "EOk" /\ Content(Here) = "mistyped"
  /\ setErrorDescription("ETypeMismatch")
  /\ GoOn /\ UNCHANGED <<read, defaulted>>

\* The shareDiff of an instance whose protocol is the string "stratum": an
\* error does not keep it from being read, and a mistyped one is zero.
ShareDiff ==
  /\ At({"shareDiff"})
  /\ \/ UNCHANGED <<read, defaulted>>
     \/ /\ Sibling(Here, "protocol") \in read /\ Content(Here) # "absent"
        /\ IF Content(Here) = "good" THEN Read ELSE SetDefault
  /\ GoOn /\ NoError

Containers == {"document", "array", "addresses"}

EnterContainer ==
  /\ At(Containers) /\ Content(Here) = "good"
  /\ Read
  /\ GoOn /\ NoError

\* The condition of miningAddresses does not tell a missing array from a
\* mistyped one.
ContainerError(kind, content) ==
  IF kind # "addresses" /\ content = "absent" THEN "ENotExists" ELSE "ETypeMismatch"

\* A member of the document itself: load() returns false.
DocumentIncomplete ==
  /\ At({"document"}) /\ Content(Here) # "good"
  /\ setErrorDescription(ContainerError("document", Content(Here)))
  /\ result' = "false"
  /\ UNCHANGED <<doc, part, step, read, defaulted>>

\* Mutation: the method returns without an error.
CoinGivenUp ==
  /\ At({"array", "addresses"}) /\ Content(Here) # "good"
  /\ part' = part + 1 /\ step' = 1
  /\ UNCHANGED <<doc, error, described, read, defaulted, result>>

\* An array of a coin: CCoinConfig::load returns, and the caller goes on.
CoinIncomplete ==
  /\ At({"array", "addresses"}) /\ Content(Here) # "good"
  /\ setErrorDescription(ContainerError(Parts[part][step].kind, Content(Here)))
  /\ part' = part + 1 /\ step' = 1
  /\ UNCHANGED <<doc, read, defaulted, result>>

\* Mutation: the loop goes one step past the end.
NextPartPastEnd ==
  /\ result = "running" /\ part <= Len(Parts) + 1
  /\ part <= Len(Parts) => step > Len(Parts[part])
  /\ part' = part + 1 /\ step' = 1
  /\ UNCHANGED <<doc, error, described, read, defaulted, result>>

NextPart ==
  /\ InPart /\ step > Len(Parts[part])
  /\ part' = part + 1 /\ step' = 1
  /\ UNCHANGED <<doc, error, described, read, defaulted, result>>

\* return error == EOk;
Return ==
  /\ result = "running" /\ part > Len(Parts)
  /\ result' = IF error = "EOk" THEN "true" ELSE "false"
  /\ UNCHANGED <<doc, part, step, error, described, read, defaulted>>

Returned == result # "running" /\ UNCHANGED vars

Next ==
  \/ Skip \/ ReadField \/ Default \/ FieldMissing \/ FieldMistyped \/ ShareDiff
  \/ EnterContainer \/ DocumentIncomplete \/ CoinIncomplete
  \/ NextPart \/ Return \/ Returned

Spec == Init /\ [][Next]_vars

-----------------------------------------------------------------------------
(* Properties.                                                             *)

Faulty(s) == \/ Content(s.place) = "mistyped" /\ s.kind # "shareDiff"
             \/ Content(s.place) = "absent" /\ s.kind \notin {"optional", "shareDiff"}

Filled(s) ==
  \/ s.kind = "shareDiff"
  \/ Content(s.place) = "good" /\ s.place \in read
  \/ Content(s.place) = "absent" /\ s.kind = "optional" /\ s.place \in defaulted

(* A configuration that load() accepts is complete: every step of every    *)
(* method found what it asks for or had a default, whatever the methods    *)
(* skipped, and however early one of them returned (config.cpp:269-351).   *)
AcceptedIsComplete ==
  result = "true" =>
    \A p \in 1..Len(Parts) : \A s \in 1..Len(Parts[p]) : Filled(Parts[p][s])

(* The error that main() prints is one that the document has, at the place *)
(* it names, although a later error may have replaced an earlier one; so   *)
(* nothing is refused without a fault (config.cpp:4-12).                   *)
RefusedHasCause ==
  /\ result = "false" => error # "EOk"
  /\ error # "EOk" => \E p \in 1..Len(Parts) : \E s \in 1..Len(Parts[p]) :
       Parts[p][s].place = described /\ Faulty(Parts[p][s])

(* What the proofs need: as long as no error is known, all the steps       *)
(* before the next one have filled their place.                            *)
Before(p, s) == p < part \/ (p = part /\ s < step)
DoneSoFar ==
  error = "EOk" /\ result # "false" =>
    \A p \in 1..Len(Parts) : \A s \in 1..Len(Parts[p]) :
      Before(p, s) => Filled(Parts[p][s])
Ending == result = "true" => part > Len(Parts) /\ error = "EOk"
IInv == TypeOK /\ DoneSoFar /\ Ending /\ RefusedHasCause
=============================================================================
