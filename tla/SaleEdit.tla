------------------------------ MODULE SaleEdit ------------------------------
(***************************************************************************)
(* The form that edits a sale, from the copy it is filled with to the row   *)
(* that PATCH /sales/:id leaves, for the parts of a sale that the form and   *)
(* the server treat differently: a text that a blank does not clear         *)
(* ("notes"), a date that it does ("schedule"), and the data of a direct     *)
(* debit with the CPF of its account holder, which some users see masked.   *)
(***************************************************************************)
EXTENDS Naturals

CONSTANTS
    Texts, Banks, Cpfs, \* values of the fields; the CPFs are valid ones
    Blank,     \* an empty field; null in the database
    Absent,    \* a field left out of the request
    Masked,    \* a CPF with its middle digits hidden
    MaxOthers, \* bound on the edits of others
    MaxLate    \* bound on the inputs while a request is under way

ASSUME SaleEditAssumption ==
    /\ \A value \in {Blank, Absent, Masked} : value \notin Texts \cup Banks \cup Cpfs \cup {"customer", "other"}
    /\ Blank # Absent /\ Blank # Masked /\ Absent # Masked

VARIABLES
    stored,    \* the row of the sale
    viewer,    \* may the editor see documents (customers.view_document)?
    copy,      \* the sale as the form got it
    edited,    \* the fields of the form
    submitted, \* history variable: what the fields were when the request was sent
    patch,     \* the request: what it sends, then also the bank data it resolved to
    at,        \* closed, open, sent, checked, saved, refused
    others,    \* edits by others
    typings    \* inputs while the request is under way

editVars == <<stored, viewer, copy, edited, submitted, patch, at, others, typings>>

\* The bank data is there exactly for a direct debit, and a CPF exactly when
\* the account belongs to another person.
Rows ==
    {r \in [notes : Texts \cup {Blank}, schedule : Texts \cup {Blank}, debit : BOOLEAN,
            bank : Banks \cup {Blank}, holder : {"customer", "other", Blank},
            cpf : Cpfs \cup {Blank}] :
        /\ r.debit <=> r.bank # Blank
        /\ r.debit <=> r.holder # Blank
        /\ r.holder = "other" <=> r.cpf # Blank}

\* A row as the editor gets it.
Shown(row) == IF row.cpf # Blank /\ ~ viewer THEN [row EXCEPT !.cpf = Masked] ELSE row

IsCpf(value) == value \in Cpfs

NoPatch ==
    [notes |-> Absent, schedule |-> Absent, debit |-> FALSE, bank |-> Absent, holder |-> Absent,
     cpf |-> Absent]

Open ==
    /\ at = "closed"
    /\ copy' = Shown(stored) /\ edited' = Shown(stored) /\ submitted' = Shown(stored)
    /\ at' = "open"
    /\ UNCHANGED <<stored, viewer, patch, others, typings>>

\* The fields take input as long as the form is there, also while a request is
\* under way, which only disables the button.  The fields of the account holder
\* are on display only while they matter.
Type ==
    /\ at # "closed" /\ (at # "open" => typings < MaxLate)
    /\ typings' = IF at = "open" THEN typings ELSE typings + 1
    /\ \/ \E t \in Texts \cup {Blank} : edited' = [edited EXCEPT !.notes = t]
       \/ \E t \in Texts \cup {Blank} : edited' = [edited EXCEPT !.schedule = t]
       \/ edited' = [edited EXCEPT !.debit = ~ @]
       \/ \E b \in Banks : edited.debit /\ edited' = [edited EXCEPT !.bank = b]
       \/ \E h \in {"customer", "other"} : edited.debit /\ edited' = [edited EXCEPT !.holder = h]
       \/ \E c \in Cpfs : edited.debit /\ edited.holder = "other" /\ edited' = [edited EXCEPT !.cpf = c]
    /\ UNCHANGED <<stored, viewer, copy, submitted, patch, at, others>>

BankDataComplete(values) ==
    /\ values.bank # Blank
    /\ \/ values.holder = "customer"
       \/ values.holder = "other" /\ (values.cpf = Masked \/ IsCpf(values.cpf))

OrAbsent(value) == IF value = Blank THEN Absent ELSE value

\* A payload in which a blank date keeps what is stored, too.
SalePayloadKeeping(values) ==
    [notes |-> OrAbsent(values.notes), schedule |-> OrAbsent(values.schedule), debit |-> values.debit,
     bank |-> IF values.debit THEN values.bank ELSE Absent,
     holder |-> IF values.debit THEN values.holder ELSE Absent,
     cpf |-> IF values.debit /\ values.holder = "other" /\ values.cpf # Masked
             THEN values.cpf ELSE Absent]

SalePayload(values) ==
    [notes |-> OrAbsent(values.notes), schedule |-> values.schedule, debit |-> values.debit,
     bank |-> IF values.debit THEN values.bank ELSE Absent,
     holder |-> IF values.debit THEN values.holder ELSE Absent,
     cpf |-> IF values.debit /\ values.holder = "other" /\ values.cpf # Masked
             THEN values.cpf ELSE Absent]

Save ==
    /\ at = "open"
    /\ edited.debit => BankDataComplete(edited)
    /\ patch' = SalePayload(edited)
    /\ submitted' = edited
    /\ at' = "sent"
    /\ UNCHANGED <<stored, viewer, copy, edited, others, typings>>

-----------------------------------------------------------------------------
(* The server. *)

OrElse(value, before) == IF value = Absent THEN before ELSE value

\* The bank data for a direct debit: what is sent, or else what the sale has, as
\* the editor would see it.
NextBankData ==
    LET before == Shown(stored)
    IN  [bank |-> OrElse(patch.bank, before.bank), holder |-> OrElse(patch.holder, before.holder),
         cpf |-> OrElse(patch.cpf, before.cpf)]

EmptyBankData == [bank |-> Blank, holder |-> Blank, cpf |-> Blank]

\* A check of the CPF that is content with any text.
AcceptsAny(next) ==
    /\ next.bank # Blank /\ next.holder # Blank
    /\ next.holder = "other" => next.cpf # Blank

Accepts(next) ==
    /\ next.bank # Blank /\ next.holder # Blank
    /\ next.holder = "other" => IsCpf(next.cpf)

\* The CPF of an account that is the customer's own is dropped.
Resolved(next) == IF next.holder = "customer" THEN [next EXCEPT !.cpf = Blank] ELSE next

Check ==
    /\ at = "sent"
    /\ IF patch.debit /\ ~ Accepts(NextBankData)
       THEN at' = "refused" /\ UNCHANGED patch
       ELSE /\ at' = "checked"
            /\ LET data == IF patch.debit THEN Resolved(NextBankData) ELSE EmptyBankData
               IN  patch' = [patch EXCEPT !.bank = data.bank, !.holder = data.holder,
                                          !.cpf = data.cpf]
    /\ UNCHANGED <<stored, viewer, copy, edited, submitted, others, typings>>

Write ==
    /\ at = "checked"
    /\ stored' = [patch EXCEPT !.notes = OrElse(patch.notes, stored.notes),
                               !.schedule = OrElse(patch.schedule, stored.schedule)]
    /\ at' = "saved"
    /\ UNCHANGED <<viewer, copy, edited, submitted, patch, others, typings>>

\* After an error the form stays open; after a success the page of the sale
\* leads to a new form, and what was typed since is gone.
Answer ==
    /\ at \in {"refused", "saved"}
    /\ at' = IF at = "saved" THEN "closed" ELSE "open"
    /\ patch' = NoPatch /\ submitted' = copy /\ typings' = 0
    /\ edited' = IF at = "saved" THEN copy ELSE edited
    /\ UNCHANGED <<stored, viewer, copy, others>>

\* Another user leaves some other row.
OtherEdit(row) ==
    /\ others < MaxOthers
    /\ others' = others + 1
    /\ stored' = row
    /\ UNCHANGED <<viewer, copy, edited, submitted, patch, at, typings>>

SaleEditInit ==
    /\ stored \in Rows /\ viewer \in BOOLEAN
    /\ copy = stored /\ edited = stored /\ submitted = stored
    /\ patch = NoPatch
    /\ at = "closed" /\ others = 0 /\ typings = 0

SaleEditNext ==
    \/ Open \/ Type \/ Save \/ Check \/ Write \/ Answer
    \/ \E row \in Rows : OtherEdit(row)

SaleEditSpec == SaleEditInit /\ [][SaleEditNext]_editVars

-----------------------------------------------------------------------------
(* Properties. *)

\* The row stays consistent whoever edits it and whatever happens between the
\* check and the write: bank data for a direct debit and only then, and never
\* the mask in place of a CPF.
RowConsistent == stored \in Rows

\* Saving leaves what the form showed when it was sent, whatever was typed or
\* stored meanwhile: only a blank text keeps what is stored, and what cannot be
\* saved as it was shown, a masked CPF, is not saved at all.
SavedAsShown ==
    [][at = "checked" /\ at' = "saved" =>
        /\ stored'.schedule = submitted.schedule
        /\ stored'.notes = (IF submitted.notes = Blank THEN stored.notes ELSE submitted.notes)
        /\ stored'.debit = submitted.debit
        /\ submitted.debit => stored'.bank = submitted.bank /\ stored'.holder = submitted.holder
        /\ stored'.cpf = (IF submitted.debit /\ submitted.holder = "other"
                          THEN submitted.cpf ELSE Blank)
      ]_editVars

\* What direct-debit.spec.ts:70 says, "prefers the dto value and falls back to
\* the stored one": a form whose CPF was left as it was shown is saved with the
\* CPF that is stored.
FallsBackToStored ==
    at = "refused" => submitted.cpf # copy.cpf
=============================================================================
