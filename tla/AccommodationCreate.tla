------------------------- MODULE AccommodationCreate -------------------------
(***************************************************************************)
(* The two accommodation mutations of                                      *)
(* src/saleor/graphql/accommodation/schema.py, for a set of concurrent    *)
(* Callers, each making one call:                                          *)
(*   - AccommodationBulkCreate (lines 163-263), in one transaction        *)
(*     (traced_atomic_transaction): every input is validated, its address *)
(*     saved and its instance cleaned; any ValidationError rolls back;    *)
(*     otherwise every instance is saved and the transaction commits.     *)
(*   - AccommodationCreate (lines 127-160), with no transaction of its    *)
(*     own: construct_instance saves the address, then ModelMutation      *)
(*     cleans and saves the instance, each statement committing at once.  *)
(* ModelMutation (outside this repository) cleans an instance with        *)
(* full_clean, whose unique check of Accommodation.name sees committed    *)
(* rows only, and saves it with instance.save().  An INSERT of a name     *)
(* another open transaction has inserted waits for that transaction; a    *)
(* committed duplicate raises IntegrityError.                              *)
(* An input is a name and its address: valid, invalid (the form or the   *)
(* name fails validation) or missing (AccommodationInput.address is     *)
(* optional);                                                               *)
(* images are checked before anything is written and are left out.        *)
(***************************************************************************)
EXTENDS Naturals, Sequences

CONSTANTS
    Callers,       \* concurrent calls
    Names,         \* accommodation names
    MaxLen         \* bound on the length of a bulk input list

VARIABLES
    accs,          \* committed Accommodation rows [name, addr]
    addrs,         \* committed Address rows, identified by <<caller, index>>
    pc,            \* per caller: "idle", "creating", "saving", "cleaning", "saving1", "done", "error"
    kind,          \* per caller: "bulk" or "single"
    input,         \* per caller: the list of inputs
    k,             \* per caller: the index of the next input
    errs,          \* per caller: indices with a ValidationError
    pAddr,         \* per caller: Address rows inserted, not committed
    pAcc           \* per caller: Accommodation rows inserted, not committed

vars == <<accs, addrs, pc, kind, input, k, errs, pAddr, pAcc>>

Inputs == [name : Names, address : {"valid", "invalid", "missing"}]

Row(c, i) == [name |-> input[c][i].name, addr |-> <<c, i>>]

Taken == {r.name : r \in accs}

(* The names another open transaction holds uncommitted.                   *)
HeldNames(c) == UNION {{r.name : r \in pAcc[d]} : d \in Callers \ {c}}

AccommodationInit ==
    /\ accs = {}
    /\ addrs = {}
    /\ pc = [c \in Callers |-> "idle"]
    /\ kind = [c \in Callers |-> "bulk"]
    /\ input = [c \in Callers |-> <<>>]
    /\ k = [c \in Callers |-> 1]
    /\ errs = [c \in Callers |-> {}]
    /\ pAddr = [c \in Callers |-> {}]
    /\ pAcc = [c \in Callers |-> {}]

(* Lines 249-253: a bulk call with any list, empty included, opens its    *)
(* transaction; clean_accommodations writes nothing.                       *)
BulkCreate(c) ==
    /\ pc[c] = "idle"
    /\ \E n \in 0..MaxLen : \E inp \in [1..n -> Inputs] : input' = [input EXCEPT ![c] = inp]
    /\ kind' = [kind EXCEPT ![c] = "bulk"]
    /\ pc' = [pc EXCEPT ![c] = "creating"]
    /\ UNCHANGED <<accs, addrs, k, errs, pAddr, pAcc>>

(* Mutant: prepare_address saves the address outside the transaction.    *)
CreateAccommodationAutocommit(c) ==
    /\ pc[c] = "creating"
    /\ k[c] <= Len(input[c])
    /\ input[c][k[c]].address # "missing"
    /\ IF input[c][k[c]].address = "valid"
          THEN /\ addrs' = addrs \cup {<<c, k[c]>>}
               /\ errs' = IF input[c][k[c]].name \in Taken THEN [errs EXCEPT ![c] = @ \cup {k[c]}] ELSE errs
          ELSE /\ errs' = [errs EXCEPT ![c] = @ \cup {k[c]}]
               /\ UNCHANGED addrs
    /\ k' = [k EXCEPT ![c] = @ + 1]
    /\ UNCHANGED <<accs, pc, kind, input, pAddr, pAcc>>

(* Lines 226-238, one input: an invalid address form raises before the   *)
(* address is saved; otherwise the address is inserted and clean_instance *)
(* rejects a name already committed.  Errors are collected with their    *)
(* index.                                                                  *)
CreateAccommodation(c) ==
    /\ pc[c] = "creating"
    /\ k[c] <= Len(input[c])
    /\ input[c][k[c]].address # "missing"
    /\ IF input[c][k[c]].address = "valid"
          THEN /\ pAddr' = [pAddr EXCEPT ![c] = @ \cup {<<c, k[c]>>}]
               /\ errs' = IF input[c][k[c]].name \in Taken THEN [errs EXCEPT ![c] = @ \cup {k[c]}] ELSE errs
          ELSE /\ errs' = [errs EXCEPT ![c] = @ \cup {k[c]}]
               /\ UNCHANGED pAddr
    /\ k' = [k EXCEPT ![c] = @ + 1]
    /\ UNCHANGED <<accs, addrs, pc, kind, input, pAcc>>

(* Lines 231 and 192-194, an input without an address: prepare_address *)
(* reads cleaned_data["address"] and raises KeyError, which is not       *)
(* collected; it leaves the mutation and the transaction rolls back.     *)
AddressMissing(c) ==
    /\ pc[c] = "creating"
    /\ k[c] <= Len(input[c])
    /\ input[c][k[c]].address = "missing"
    /\ pc' = [pc EXCEPT ![c] = "error"]
    /\ pAddr' = [pAddr EXCEPT ![c] = {}]
    /\ UNCHANGED <<accs, addrs, kind, input, k, errs, pAcc>>

(* Lines 255-256: any error raises ValidationError and the transaction    *)
(* rolls back.                                                             *)
RaiseErrors(c) ==
    /\ pc[c] = "creating"
    /\ k[c] > Len(input[c])
    /\ errs[c] # {}
    /\ pc' = [pc EXCEPT ![c] = "error"]
    /\ pAddr' = [pAddr EXCEPT ![c] = {}]
    /\ UNCHANGED <<accs, addrs, kind, input, k, errs, pAcc>>

(* Line 257: no errors, save_accommodations starts.                        *)
StartSave(c) ==
    /\ pc[c] = "creating"
    /\ k[c] > Len(input[c])
    /\ errs[c] = {}
    /\ pc' = [pc EXCEPT ![c] = "saving"]
    /\ k' = [k EXCEPT ![c] = 1]
    /\ UNCHANGED <<accs, addrs, kind, input, errs, pAddr, pAcc>>

(* Mutant: the IntegrityError leaves the call's rows held.                *)
SaveIntegrityErrorKeepRows(c) ==
    /\ pc[c] = "saving"
    /\ k[c] <= Len(input[c])
    /\ input[c][k[c]].name \notin HeldNames(c)
    /\ input[c][k[c]].name \in Taken \cup {r.name : r \in pAcc[c]}
    /\ pc' = [pc EXCEPT ![c] = "error"]
    /\ UNCHANGED <<accs, addrs, kind, input, k, errs, pAddr, pAcc>>

(* Lines 241-247, one instance: its INSERT waits while another open       *)
(* transaction holds the name; a name committed meanwhile or saved        *)
(* earlier in the same list raises IntegrityError, which rolls back.     *)
SaveIntegrityError(c) ==
    /\ pc[c] = "saving"
    /\ k[c] <= Len(input[c])
    /\ input[c][k[c]].name \notin HeldNames(c)
    /\ input[c][k[c]].name \in Taken \cup {r.name : r \in pAcc[c]}
    /\ pc' = [pc EXCEPT ![c] = "error"]
    /\ pAddr' = [pAddr EXCEPT ![c] = {}]
    /\ pAcc' = [pAcc EXCEPT ![c] = {}]
    /\ UNCHANGED <<accs, addrs, kind, input, k, errs>>

(* Lines 246-247: the instance is inserted in the transaction.            *)
SaveAccommodation(c) ==
    /\ pc[c] = "saving"
    /\ k[c] <= Len(input[c])
    /\ input[c][k[c]].name \notin HeldNames(c) \cup Taken \cup {r.name : r \in pAcc[c]}
    /\ pAcc' = [pAcc EXCEPT ![c] = @ \cup {Row(c, k[c])}]
    /\ k' = [k EXCEPT ![c] = @ + 1]
    /\ UNCHANGED <<accs, addrs, pc, kind, input, errs, pAddr>>

(* Two bulk calls each wait on a name the other holds: PostgreSQL aborts  *)
(* one and its transaction rolls back.                                     *)
DeadlockAbort(c) ==
    /\ \E d \in Callers \ {c} :
          /\ pc[c] = "saving" /\ pc[d] = "saving"
          /\ k[c] <= Len(input[c]) /\ k[d] <= Len(input[d])
          /\ input[c][k[c]].name \in {r.name : r \in pAcc[d]}
          /\ input[d][k[d]].name \in {r.name : r \in pAcc[c]}
    /\ pc' = [pc EXCEPT ![c] = "error"]
    /\ pAddr' = [pAddr EXCEPT ![c] = {}]
    /\ pAcc' = [pAcc EXCEPT ![c] = {}]
    /\ UNCHANGED <<accs, addrs, kind, input, k, errs>>

(* Lines 259-263: the mutation returns and the transaction commits.       *)
Commit(c) ==
    /\ pc[c] = "saving"
    /\ k[c] > Len(input[c])
    /\ accs' = accs \cup pAcc[c]
    /\ addrs' = addrs \cup pAddr[c]
    /\ pc' = [pc EXCEPT ![c] = "done"]
    /\ pAddr' = [pAddr EXCEPT ![c] = {}]
    /\ pAcc' = [pAcc EXCEPT ![c] = {}]
    /\ UNCHANGED <<kind, input, k, errs>>

(* Lines 152-160: AccommodationCreate.construct_instance.  An invalid     *)
(* address form raises; otherwise address_form.save() commits the        *)
(* address.                                                                *)
CreateSingle(c) ==
    /\ pc[c] = "idle"
    /\ \E inp \in Inputs :
          /\ input' = [input EXCEPT ![c] = <<inp>>]
          /\ IF inp.address = "valid"
                THEN /\ addrs' = addrs \cup {<<c, 1>>}
                     /\ pc' = [pc EXCEPT ![c] = "cleaning"]
                ELSE /\ pc' = [pc EXCEPT ![c] = "error"]
                     /\ UNCHANGED addrs
    /\ kind' = [kind EXCEPT ![c] = "single"]
    /\ UNCHANGED <<accs, k, errs, pAddr, pAcc>>

(* ModelMutation.clean_instance: the committed names are checked.         *)
CleanSingle(c) ==
    /\ pc[c] = "cleaning"
    /\ pc' = [pc EXCEPT ![c] = IF input[c][1].name \in Taken THEN "error" ELSE "saving1"]
    /\ UNCHANGED <<accs, addrs, kind, input, k, errs, pAddr, pAcc>>

(* ModelMutation.save: the INSERT waits on an open transaction holding    *)
(* the name, raises IntegrityError on a committed one, else commits.      *)
SaveSingle(c) ==
    /\ pc[c] = "saving1"
    /\ input[c][1].name \notin HeldNames(c)
    /\ IF input[c][1].name \in Taken
          THEN /\ pc' = [pc EXCEPT ![c] = "error"]
               /\ UNCHANGED accs
          ELSE /\ accs' = accs \cup {Row(c, 1)}
               /\ pc' = [pc EXCEPT ![c] = "done"]
    /\ UNCHANGED <<addrs, kind, input, k, errs, pAddr, pAcc>>

(* Every call has returned.                                                *)
AllReturned ==
    /\ \A c \in Callers : pc[c] \in {"done", "error"}
    /\ UNCHANGED vars

AccommodationNext ==
    \/ \E c \in Callers :
          \/ BulkCreate(c) \/ CreateAccommodation(c) \/ AddressMissing(c) \/ RaiseErrors(c) \/ StartSave(c)
          \/ SaveIntegrityError(c) \/ SaveAccommodation(c) \/ DeadlockAbort(c) \/ Commit(c)
          \/ CreateSingle(c) \/ CleanSingle(c) \/ SaveSingle(c)
    \/ AllReturned

(* A call, once made, runs straight-line code against the database: its  *)
(* steps are weakly fair.  Making a call is the client's choice.          *)
AccommodationFairSpec ==
    /\ AccommodationInit /\ [][AccommodationNext]_vars
    /\ \A c \in Callers :
          /\ WF_vars(CreateAccommodation(c) \/ AddressMissing(c) \/ RaiseErrors(c) \/ StartSave(c) \/ Commit(c))
          /\ WF_vars(SaveIntegrityError(c) \/ SaveAccommodation(c))
          /\ WF_vars(DeadlockAbort(c))
          /\ WF_vars(CleanSingle(c) \/ SaveSingle(c))

-----------------------------------------------------------------------------
(* A bulk create is all or nothing, whatever the other calls do: when it *)
(* returns its accommodations, every input is committed with its own      *)
(* address; when it fails (a ValidationError of any input, an             *)
(* IntegrityError of a duplicate name, a deadlock), none of its           *)
(* addresses or accommodations remains.                                     *)
BulkCreateAllOrNothing ==
    \A c \in Callers : kind[c] = "bulk" =>
        /\ pc[c] = "done" =>
              \A i \in 1..Len(input[c]) : Row(c, i) \in accs /\ <<c, i>> \in addrs
        /\ pc[c] = "error" =>
              /\ \A r \in accs : r.addr[1] # c
              /\ \A a \in addrs : a[1] # c

(* Every call returns: a save waiting on another transaction's name is    *)
(* released when that transaction commits or rolls back, and of two bulk *)
(* calls waiting on each other one is aborted.                             *)
EveryCallReturns ==
    \A c \in Callers : pc[c] \notin {"idle", "done", "error"} ~> pc[c] \in {"done", "error"}

=============================================================================
