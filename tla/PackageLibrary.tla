--------------------------- MODULE PackageLibrary ---------------------------
(***************************************************************************)
(* The library of saved packages (ordering_packages.py): one file, the     *)
(* image of it in memory, and writes that name the revision they were      *)
(* made from.  A save is awaited to its end whatever is cancelled, then    *)
(* published; after one that failed nothing more is written until the      *)
(* entry is set up again and reads the file.                               *)
(*                                                                         *)
(* A package is a name with aliases and a recipe.  Digests identify what   *)
(* they are digests of.  The lock of the library is held over the save, so *)
(* an operation is one step.                                               *)
(***************************************************************************)
EXTENDS Integers, FiniteSets

CONSTANTS
    Refs,           \* package references
    Names,          \* normalised names and aliases
    Recipes,        \* a store and the products chosen from it
    Accounts,       \* digests of the customer
    None,
    MaxRevision

VARIABLES
    file,           \* the stored image and its schema
    image,          \* self._image
    loaded,         \* self._loaded
    writable        \* self._writable

libraryVars == <<file, image, loaded, writable>>

Revisions == 0..MaxRevision

\* by: history, the account that saved the package.
Packages == [revision: 1..MaxRevision, names: (SUBSET Names) \ {{}}, recipe: Recipes,
             by: Accounts]
Images == [revision: Revisions, account: Accounts \cup {None},
           packages: [Refs -> Packages \cup {None}]]

ASSUME PackageLibraryConstants ==
    /\ MaxRevision \in Nat
    /\ None \notin Accounts /\ None \notin Packages

EmptyImage == [revision |-> 0, account |-> None, packages |-> [r \in Refs |-> None]]

\* No file, a file no load accepts, or an image in one of the two schemas.
Schemas == {"absent", "unreadable", "v1", "v2"}
Stored(i) == [schema |-> "v2", image |-> i]

Present(i) == {r \in Refs : i.packages[r] # None}

\* What LibraryImage accepts: no token names two packages, and packages have an account.
WellFormed(i) ==
    /\ \A r, q \in Present(i) : r # q => i.packages[r].names \cap i.packages[q].names = {}
    /\ Present(i) # {} => i.account # None

\* Mutant: the library goes on writing after a save whose outcome it does not know.
SaveStayingWritable(candidate, r) ==
    \/ /\ r = "ok"
       /\ file' = Stored(candidate)
       /\ image' = candidate
       /\ UNCHANGED writable
    \/ /\ r = "failed"
       /\ file' \in {file, Stored(candidate)}
       /\ UNCHANGED <<image, writable>>

\* _async_save_candidate.  Cancelled or not, a save that succeeds is published.
SaveCandidate(candidate, r) ==
    \/ /\ r = "ok"
       /\ file' = Stored(candidate)
       /\ image' = candidate
       /\ UNCHANGED writable
    \/ /\ r = "failed"
       /\ file' \in {file, Stored(candidate)}
       /\ writable' = FALSE
       /\ UNCHANGED image

(***************************************************************************)
(* Load, at setup.                                                         *)
(***************************************************************************)
Readable(f) == f.schema # "unreadable" /\ WellFormed(f.image)

\* An absent file and one of the first schema are written in the second before use.
Load(r) ==
    /\ ~loaded
    /\ \/ /\ r = "cancelled"
          /\ UNCHANGED libraryVars
       \/ /\ r = "failed" \/ ~Readable(file)
          /\ writable' = FALSE
          /\ UNCHANGED <<file, image, loaded>>
       \/ /\ r = "ok" /\ Readable(file) /\ file.schema = "v2"
          /\ image' = file.image
          /\ loaded' = TRUE
          /\ UNCHANGED <<file, writable>>
       \/ /\ Readable(file) /\ file.schema # "v2"
          /\ SaveCandidate(file.image, r)
          /\ loaded' = (r = "ok")

\* The process, or the runtime, ends.
Forget ==
    /\ image' = EmptyImage
    /\ loaded' = FALSE
    /\ writable' = TRUE
    /\ UNCHANGED file

(***************************************************************************)
(* Reads and writes.                                                       *)
(***************************************************************************)
WriteGuard(expected) ==
    /\ loaded /\ writable
    /\ expected = image.revision
    /\ image.revision < MaxRevision

\* _bind_account.
SameAccount(account) == image.account \in {None, account}

Successor(packages, account) ==
    [revision |-> image.revision + 1, account |-> account, packages |-> packages]

\* revision 0 makes a new package, another one replaces the package of that revision.
SavePackage(expected, ref, revision, names, recipe, account, r) ==
    /\ WriteGuard(expected)
    /\ SameAccount(account)
    /\ \A q \in Present(image) \ {ref} : image.packages[q].names \cap names = {}
    /\ IF revision = 0
       THEN ref \notin Present(image)
       ELSE ref \in Present(image) /\ image.packages[ref].revision = revision
    /\ revision < MaxRevision
    /\ LET record == [revision |-> revision + 1, names |-> names, recipe |-> recipe,
                      by |-> account] IN
         SaveCandidate(Successor([image.packages EXCEPT ![ref] = record], account), r)
    /\ UNCHANGED loaded

\* Mutant: the account is let go with any package.
DeleteUnbinding(expected, ref, revision, r) ==
    /\ WriteGuard(expected)
    /\ ref \in Present(image) /\ image.packages[ref].revision = revision
    /\ SaveCandidate(Successor([image.packages EXCEPT ![ref] = None], None), r)
    /\ UNCHANGED loaded

\* async_delete_package, by whoever: the last package takes the account along.
DeletePackage(expected, ref, revision, r) ==
    /\ WriteGuard(expected)
    /\ ref \in Present(image) /\ image.packages[ref].revision = revision
    /\ SaveCandidate(Successor([image.packages EXCEPT ![ref] = None],
                          IF Present(image) = {ref} THEN None ELSE image.account), r)
    /\ UNCHANGED loaded

\* async_prepare_records: the one package of that name.
Found(name) == {r \in Present(image) : name \in image.packages[r].names}

\* async_assert_current.
IsCurrent(storeRevision, ref, revision) ==
    /\ loaded
    /\ image.revision = storeRevision
    /\ ref \in Present(image) /\ image.packages[ref].revision = revision

(***************************************************************************)
(* The library by itself.                                                  *)
(***************************************************************************)
SaveResults == {"ok", "failed"}

\* What the first setup finds: nothing, another file, or what some release wrote.
FirstFile(f) ==
    /\ f \in [schema: Schemas, image: Images]
    /\ f.schema \in {"absent", "unreadable"} \/ f.image.revision = 0 => f.image = EmptyImage
    /\ WellFormed(f.image)
    /\ Present(f.image) = {} => f.image.account = None
    /\ \A r \in Present(f.image) :
          /\ f.image.packages[r].by = f.image.account
          /\ f.image.packages[r].revision <= f.image.revision

LibraryInit ==
    /\ FirstFile(file)
    /\ image = EmptyImage
    /\ loaded = FALSE
    /\ writable = TRUE

LibraryNext ==
    \/ \E r \in SaveResults \cup {"cancelled"} : Load(r)
    \/ \E expected \in Revisions, ref \in Refs, revision \in Revisions,
          names \in (SUBSET Names) \ {{}}, recipe \in Recipes, account \in Accounts,
          r \in SaveResults :
          SavePackage(expected, ref, revision, names, recipe, account, r)
    \/ \E expected \in Revisions, ref \in Refs, revision \in Revisions, r \in SaveResults :
          DeletePackage(expected, ref, revision, r)
    \/ Forget

LibrarySpec == LibraryInit /\ [][LibraryNext]_libraryVars

(***************************************************************************)
(* Properties.                                                             *)
(***************************************************************************)
\* Memory and file have their types.
LibraryTypeOK ==
    /\ file \in [schema: Schemas, image: Images]
    /\ image \in Images
    /\ loaded \in BOOLEAN /\ writable \in BOOLEAN

\* As long as writes are taken, what they are based on is what the file holds: a save
\* that failed, or was cancelled, never makes the library overwrite what it did not read.
WritableMatchesFile == (loaded /\ writable) => file = Stored(image)

OneAccount(i) == \A r \in Present(i) : i.packages[r].by = i.account

\* All packages of a library were saved by the account it is bound to, whatever accounts
\* the entry was given meanwhile: a recipe is never prepared for another customer.
PackagesOfOneAccount == OneAccount(image)

=============================================================================
