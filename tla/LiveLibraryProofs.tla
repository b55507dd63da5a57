-------------------------- MODULE LiveLibraryProofs -------------------------
(***************************************************************************)
(* The library of packages writes only over what it read and binds every   *)
(* package to one account; the facade's operations on it implement         *)
(* PackageLibrary, and a package that is prepared orders what was saved:   *)
(* for any stores, groups, options and menus, and for any number of them.  *)
(***************************************************************************)
EXTENDS LiveLibrary, FiniteSetTheorems, TLAPS

(***************************************************************************)
(* PackageLibrary: the library keeps its types, writes only over what it   *)
(* read, and binds every package to one account.                           *)
(***************************************************************************)
\* The image in memory comes from the file, and the file from some image in memory.
LibraryInv ==
    /\ LibraryTypeOK
    /\ WritableMatchesFile
    /\ OneAccount(image)
    /\ OneAccount(file.image)

\* A candidate made of an image of one account and a package of that account is one too.
LEMMA SavedCandidate ==
    ASSUME image \in Images, OneAccount(image),
           NEW owner \in Accounts, SameAccount(owner),
           NEW ref \in Refs, NEW record \in Packages, record.by = owner,
           image.revision < MaxRevision
    PROVE  LET c == Successor([image.packages EXCEPT ![ref] = record], owner) IN
             c \in Images /\ OneAccount(c)
<1> DEFINE packages == [image.packages EXCEPT ![ref] = record]
           c == Successor(packages, owner)
<1>1. packages \in [Refs -> Packages \cup {None}]
  BY DEF Images
<1>2. image.revision + 1 \in Revisions
  BY PackageLibraryConstants DEF Images, Revisions
<1>3. c \in Images
  BY <1>1, <1>2 DEF Images, Successor
<1>4. ASSUME NEW r \in Present(c) PROVE c.packages[r].by = c.account
  <2>1. r \in Refs /\ c.packages = packages /\ c.account = owner /\ packages[r] # None
    BY <1>4 DEF Present, Successor
  <2>2. CASE r = ref
    BY <2>1, <2>2, <1>1 DEF Images
  <2>3. CASE r # ref
    <3>1. packages[r] = image.packages[r]
      BY <2>1, <2>3 DEF Images
    <3>2. r \in Present(image) /\ image.packages[r] \in Packages
      BY <2>1, <3>1, <1>1 DEF Present, Images
    <3>3. image.packages[r].by = image.account /\ image.packages[r].by \in Accounts
      BY <3>2 DEF OneAccount, Packages
    <3>4. image.account = owner
      BY <3>3, PackageLibraryConstants DEF SameAccount
    <3> QED BY <3>1, <3>3, <3>4, <2>1
  <2> QED BY <2>2, <2>3
<1> QED BY <1>3, <1>4 DEF OneAccount

\* Without one package an image is still of one account, which goes with the last of them.
LEMMA DeletedCandidate ==
    ASSUME image \in Images, OneAccount(image),
           NEW ref \in Present(image),
           image.revision < MaxRevision
    PROVE  LET c == Successor([image.packages EXCEPT ![ref] = None],
                              IF Present(image) = {ref} THEN None ELSE image.account) IN
             c \in Images /\ OneAccount(c)
<1> DEFINE packages == [image.packages EXCEPT ![ref] = None]
           owner == IF Present(image) = {ref} THEN None ELSE image.account
           c == Successor(packages, owner)
<1>1. ref \in Refs /\ packages \in [Refs -> Packages \cup {None}]
  BY DEF Images, Present
<1>2. image.revision + 1 \in Revisions /\ owner \in Accounts \cup {None}
  BY PackageLibraryConstants DEF Images, Revisions
<1>3. c \in Images
  BY <1>1, <1>2 DEF Images, Successor
<1>4. ASSUME NEW r \in Present(c) PROVE c.packages[r].by = c.account
  <2>1. r \in Refs /\ c.packages = packages /\ c.account = owner /\ packages[r] # None
    BY <1>4 DEF Present, Successor
  <2>2. r # ref
    BY <2>1, <1>1 DEF Images
  <2>3. packages[r] = image.packages[r]
    BY <2>1, <2>2 DEF Images
  <2>4. r \in Present(image)
    BY <2>1, <2>3 DEF Present
  <2>5. image.packages[r].by = image.account /\ owner = image.account
    BY <2>2, <2>4 DEF OneAccount
  <2> QED BY <2>1, <2>3, <2>5
<1> QED BY <1>3, <1>4 DEF OneAccount

\* Whatever becomes of a save, memory and file hold one of the two images.
LEMMA SavePreserves ==
    ASSUME LibraryInv,
           NEW candidate \in Images, OneAccount(candidate),
           NEW r, SaveCandidate(candidate, r),
           loaded' \in BOOLEAN
    PROVE  LibraryInv'
<1>1. Stored(candidate) \in [schema: Schemas, image: Images]
      /\ Stored(candidate).image = candidate
  BY DEF Stored, Schemas
<1>2. CASE r = "ok"
  <2>1. file' = Stored(candidate) /\ image' = candidate /\ writable' = writable
    BY <1>2 DEF SaveCandidate
  <2>2. LibraryTypeOK'
    BY <1>1, <2>1 DEF LibraryInv, LibraryTypeOK
  <2>3. WritableMatchesFile'
    BY <2>1 DEF WritableMatchesFile
  <2>4. OneAccount(image)' /\ OneAccount(file.image)'
    BY <1>1, <2>1 DEF OneAccount, Present
  <2> QED BY <2>2, <2>3, <2>4 DEF LibraryInv
<1>3. CASE r # "ok"
  <2>1. file' \in {file, Stored(candidate)} /\ image' = image /\ writable' = FALSE
    BY <1>3 DEF SaveCandidate
  <2>2. LibraryTypeOK'
    BY <1>1, <2>1 DEF LibraryInv, LibraryTypeOK
  <2>3. WritableMatchesFile'
    BY <2>1 DEF WritableMatchesFile
  <2>4. OneAccount(image)'
    BY <2>1 DEF LibraryInv, OneAccount, Present
  <2>5. OneAccount(file.image)'
    BY <1>1, <2>1 DEF LibraryInv, OneAccount, Present
  <2> QED BY <2>2, <2>3, <2>4, <2>5 DEF LibraryInv
<1> QED BY <1>2, <1>3

LEMMA LibraryInitInv == LibraryInit => LibraryInv
<1> SUFFICES ASSUME LibraryInit PROVE LibraryInv
  OBVIOUS
<1>1. EmptyImage \in Images /\ OneAccount(EmptyImage)
  BY PackageLibraryConstants DEF EmptyImage, Images, Revisions, OneAccount, Present
<1>2. LibraryTypeOK
  BY <1>1 DEF LibraryInit, FirstFile, LibraryTypeOK
<1>3. WritableMatchesFile
  BY DEF LibraryInit, WritableMatchesFile
<1>4. OneAccount(file.image)
  BY DEF LibraryInit, FirstFile, OneAccount
<1> QED BY <1>1, <1>2, <1>3, <1>4 DEF LibraryInit, LibraryInv

LEMMA LoadPreserves ==
    ASSUME LibraryInv, NEW r, Load(r)
    PROVE  LibraryInv'
<1>1. CASE r = "cancelled" /\ UNCHANGED libraryVars
  BY <1>1 DEF LibraryInv, libraryVars, LibraryTypeOK, WritableMatchesFile, OneAccount, Present
<1>2. CASE writable' = FALSE /\ UNCHANGED <<file, image, loaded>>
  BY <1>2 DEF LibraryInv, LibraryTypeOK, WritableMatchesFile, OneAccount, Present
<1>3. CASE /\ file.schema = "v2" /\ image' = file.image /\ loaded' = TRUE
           /\ UNCHANGED <<file, writable>>
  <2>1. file = Stored(file.image) /\ file.image \in Images
    BY <1>3 DEF LibraryInv, LibraryTypeOK, Stored
  <2>2. LibraryTypeOK'
    BY <1>3, <2>1 DEF LibraryInv, LibraryTypeOK
  <2>3. WritableMatchesFile'
    BY <1>3, <2>1 DEF WritableMatchesFile, Stored
  <2>4. OneAccount(image)' /\ OneAccount(file.image)'
    BY <1>3 DEF LibraryInv, OneAccount, Present
  <2> QED BY <2>2, <2>3, <2>4 DEF LibraryInv
<1>4. CASE SaveCandidate(file.image, r) /\ loaded' = (r = "ok")
  <2>1. file.image \in Images /\ OneAccount(file.image)
    BY DEF LibraryInv, LibraryTypeOK
  <2> QED BY <1>4, <2>1, SavePreserves
<1> QED BY <1>1, <1>2, <1>3, <1>4 DEF Load

LEMMA SavePackagePreserves ==
    ASSUME LibraryInv,
           NEW expected, NEW ref \in Refs, NEW revision \in Revisions,
           NEW names \in (SUBSET Names) \ {{}}, NEW recipe \in Recipes,
           NEW owner \in Accounts, NEW r,
           SavePackage(expected, ref, revision, names, recipe, owner, r)
    PROVE  LibraryInv'
<1> DEFINE record == [revision |-> revision + 1, names |-> names, recipe |-> recipe,
                      by |-> owner]
           c == Successor([image.packages EXCEPT ![ref] = record], owner)
<1>1. image.revision < MaxRevision /\ SameAccount(owner) /\ revision < MaxRevision
  BY DEF SavePackage, WriteGuard
<1>2. record \in Packages /\ record.by = owner
  BY <1>1, PackageLibraryConstants DEF Packages, Revisions
<1>3. c \in Images /\ OneAccount(c)
  BY <1>1, <1>2, SavedCandidate DEF LibraryInv, LibraryTypeOK
<1>4. SaveCandidate(c, r) /\ loaded' = loaded
  BY DEF SavePackage
<1> HIDE DEF c
<1> QED BY <1>3, <1>4, SavePreserves DEF LibraryInv, LibraryTypeOK

LEMMA DeletePackagePreserves ==
    ASSUME LibraryInv,
           NEW expected, NEW ref \in Refs, NEW revision, NEW r,
           DeletePackage(expected, ref, revision, r)
    PROVE  LibraryInv'
<1> DEFINE c == Successor([image.packages EXCEPT ![ref] = None],
                          IF Present(image) = {ref} THEN None ELSE image.account)
<1>1. image.revision < MaxRevision /\ ref \in Present(image)
  BY DEF DeletePackage, WriteGuard
<1>2. c \in Images /\ OneAccount(c)
  BY <1>1, DeletedCandidate DEF LibraryInv, LibraryTypeOK
<1>3. SaveCandidate(c, r) /\ loaded' = loaded
  BY DEF DeletePackage
<1> HIDE DEF c
<1> QED BY <1>2, <1>3, SavePreserves DEF LibraryInv, LibraryTypeOK

LEMMA ForgetPreserves ==
    ASSUME LibraryInv, Forget
    PROVE  LibraryInv'
<1>1. EmptyImage \in Images /\ OneAccount(EmptyImage)
  BY PackageLibraryConstants DEF EmptyImage, Images, Revisions, OneAccount, Present
<1>2. LibraryTypeOK'
  BY <1>1 DEF Forget, LibraryInv, LibraryTypeOK
<1>3. WritableMatchesFile'
  BY DEF Forget, WritableMatchesFile
<1>4. OneAccount(image)' /\ OneAccount(file.image)'
  BY <1>1 DEF Forget, LibraryInv, OneAccount, Present
<1> QED BY <1>2, <1>3, <1>4 DEF LibraryInv

LEMMA LibraryStepPreserves ==
    ASSUME LibraryInv, [LibraryNext]_libraryVars
    PROVE  LibraryInv'
<1>1. ASSUME NEW r \in SaveResults \cup {"cancelled"}, Load(r) PROVE LibraryInv'
  BY <1>1, LoadPreserves
<1>2. ASSUME NEW expected \in Revisions, NEW ref \in Refs, NEW revision \in Revisions,
             NEW names \in (SUBSET Names) \ {{}}, NEW recipe \in Recipes,
             NEW owner \in Accounts, NEW r \in SaveResults,
             SavePackage(expected, ref, revision, names, recipe, owner, r)
      PROVE  LibraryInv'
  BY <1>2, SavePackagePreserves
<1>3. ASSUME NEW expected \in Revisions, NEW ref \in Refs, NEW revision \in Revisions,
             NEW r \in SaveResults, DeletePackage(expected, ref, revision, r)
      PROVE  LibraryInv'
  BY <1>3, DeletePackagePreserves
<1>4. CASE Forget
  BY <1>4, ForgetPreserves
<1>5. CASE UNCHANGED libraryVars
  BY <1>5 DEF LibraryInv, libraryVars, LibraryTypeOK, WritableMatchesFile, OneAccount, Present
<1> QED BY <1>1, <1>2, <1>3, <1>4, <1>5 DEF LibraryNext

\* Every step of the library keeps the invariant.
THEOREM LibraryInvariant == LibrarySpec => []LibraryInv
<1>1. LibraryInit => LibraryInv
  BY LibraryInitInv
<1>2. LibraryInv /\ [LibraryNext]_libraryVars => LibraryInv'
  BY LibraryStepPreserves
<1> QED BY <1>1, <1>2, PTL DEF LibrarySpec

\* Memory and file of the library have their types at every step.
THEOREM LibraryTypeCorrect == LibrarySpec => []LibraryTypeOK
<1>1. LibraryInv => LibraryTypeOK
  BY DEF LibraryInv
<1> QED BY <1>1, LibraryInvariant, PTL

\* After a save that failed or was cancelled, _async_save_candidate has closed the library
\* or published what the file holds: a later write never loses an update it did not see.
THEOREM LibraryWritesWhatItRead == LibrarySpec => []WritableMatchesFile
<1>1. LibraryInv => WritableMatchesFile
  BY DEF LibraryInv
<1> QED BY <1>1, LibraryInvariant, PTL

\* Saves by several customers, deletes and reloads in any order leave a library whose
\* packages all belong to the account it is bound to.
THEOREM LibraryHasOneAccount == LibrarySpec => []PackagesOfOneAccount
<1>1. LibraryInv => PackagesOfOneAccount
  BY DEF LibraryInv, PackagesOfOneAccount
<1> QED BY <1>1, LibraryInvariant, PTL

(***************************************************************************)
(* LiveLibrary: its inductive invariant.                                   *)
(***************************************************************************)
Issued == [generation: Nat, store: Stores, menu: Menus, old: BOOLEAN]

Contexts == [op: {"none", "save", "prepare"}, generation: Nat, ref: Refs \cup {None},
             revision: Revisions, package: Packages \cup {None},
             account: Accounts \cup {None}, store: Stores \cup {None}]

\* A preparation keeps a package of the account it asked for, then the store of its recipe.
LiveInv ==
    /\ LibraryInv
    /\ account \in Accounts /\ generation \in Nat
    /\ shelf \subseteq Issued
    /\ ctx \in Contexts
    /\ pc \in {"store", "menu"} => ctx.package \in Packages /\ ctx.package.by = ctx.account
    /\ pc = "menu" => ctx.store = ctx.package.recipe.store

(***************************************************************************)
(* Selections and recipes.                                                 *)
(***************************************************************************)
\* The defaults of the menu never show through a selection that names every group of it.
LEMMA ReconciledRestores ==
    ASSUME NEW chosen \in Choices, NEW menu \in Menus, Reconciles(chosen, menu)
    PROVE  /\ Chosen(menu, SelectionOf(chosen, menu)) = chosen
           /\ Capturable(menu, SelectionOf(chosen, menu))
<1> DEFINE selection == SelectionOf(chosen, menu)
<1>1. ASSUME NEW g \in Groups
      PROVE  /\ menu[g] = None => chosen[g] = {} /\ selection[g] = Unmentioned
             /\ menu[g] # None => /\ Permits(menu[g], chosen[g])
                                  /\ selection[g] = chosen[g]
                                  /\ selection[g] # Unmentioned
  <2>1. chosen[g] \in SUBSET Options
    BY DEF Choices
  <2>2. chosen[g] # Unmentioned
    BY <2>1, LiveLibraryConstants DEF Unmentioned
  <2> QED BY <2>2 DEF Reconciles, SelectionOf
<1>2. ASSUME NEW g \in Groups PROVE Chosen(menu, selection)[g] = chosen[g]
  BY <1>1 DEF Chosen
<1>3. Chosen(menu, selection) = chosen
  <2>1. Chosen(menu, selection) = [g \in Groups |-> Chosen(menu, selection)[g]]
    BY DEF Chosen
  <2>2. chosen = [g \in Groups |-> chosen[g]]
    BY DEF Choices
  <2> QED BY <2>1, <2>2, <1>2
<1>4. Capturable(menu, selection)
  BY <1>1, <1>3 DEF Capturable
<1> QED BY <1>3, <1>4

\* What a menu lets be captured is a recipe.
LEMMA CapturedIsRecipe ==
    ASSUME NEW store \in Stores, NEW menu \in Menus, NEW selection \in Selections,
           Capturable(menu, selection)
    PROVE  RecipeOf(store, menu, selection) \in Recipes
<1>1. ASSUME NEW g \in Groups PROVE Chosen(menu, selection)[g] \in SUBSET Options
  <2>1. CASE menu[g] = None
    BY <2>1 DEF Chosen
  <2>2. CASE menu[g] # None
    <3>1. menu[g].options \in SUBSET Options
      BY <2>2, LiveLibraryConstants DEF Offers
    <3>2. Chosen(menu, selection)[g] \subseteq menu[g].options
      BY <2>2 DEF Capturable, Permits
    <3> QED BY <3>1, <3>2
  <2> QED BY <2>1, <2>2
<1>2. Chosen(menu, selection) \in Choices
  BY <1>1 DEF Chosen, Choices
<1> QED BY <1>2, LiveLibraryConstants DEF RecipeOf

(***************************************************************************)
(* Refinement.                                                             *)
(***************************************************************************)
LEMMA LiveStep ==
    ASSUME LiveInv, [Next]_vars
    PROVE  [LibraryNext]_libraryVars
<1>0. Results \subseteq SaveResults
  BY DEF Results, SaveResults
<1>1. CASE Setup
  BY <1>0, <1>1 DEF Setup, LibraryNext
<1>2. CASE Reload
  BY <1>2 DEF Reload, LibraryNext
<1>3. CASE Save
  <2>1. PICK h \in shelf, selection \in Selections, ref \in Refs, revision \in Revisions,
             names \in (SUBSET Names) \ {{}}, r \in Results :
             /\ Capturable(h.menu, selection)
             /\ SavePackage(image.revision, ref, revision, names,
                            RecipeOf(h.store, h.menu, selection), account, r)
    BY <1>3 DEF Save
  <2>2. h.store \in Stores /\ h.menu \in Menus
    BY DEF LiveInv, Issued
  <2>3. RecipeOf(h.store, h.menu, selection) \in Recipes
    BY <2>1, <2>2, CapturedIsRecipe
  <2>4. image.revision \in Revisions /\ account \in Accounts
    BY DEF LiveInv, LibraryInv, LibraryTypeOK, Images
  <2> QED BY <1>0, <2>1, <2>3, <2>4 DEF LibraryNext
<1>4. CASE Delete
  <2>1. image.revision \in Revisions
    BY DEF LiveInv, LibraryInv, LibraryTypeOK, Images
  <2> QED BY <1>0, <1>4, <2>1 DEF Delete, LibraryNext
<1>5. CASE UNCHANGED libraryVars
  BY <1>5
<1> QED
  BY <1>1, <1>2, <1>3, <1>4, <1>5
  DEF Next, vars, Bump, SwitchAccount, Lapse, IssueAddress, IssueMenu, Begin, Abandon,
      FindPackage, FindStore, Reconcile

LEMMA HandleIssued ==
    ASSUME NEW handles \in SUBSET Issued, NEW g \in Nat, NEW s \in Stores, NEW m \in Menus
    PROVE  handles \cup {[generation |-> g, store |-> s, menu |-> m, old |-> FALSE]}
             \subseteq Issued
<1>1. [generation |-> g, store |-> s, menu |-> m, old |-> FALSE] \in Issued
  BY DEF Issued
<1> QED BY <1>1

LEMMA LiveStepPreserves ==
    ASSUME LiveInv, [Next]_vars
    PROVE  LiveInv'
<1>0. LibraryInv'
  BY LiveStep, LibraryStepPreserves DEF LiveInv
<1>1. /\ NoContext \in Contexts
      /\ ctx.generation \in Nat /\ ctx.account \in Accounts \cup {None}
      /\ image \in Images
  BY PackageLibraryConstants DEF NoContext, Contexts, LiveInv, LibraryInv, LibraryTypeOK, Images,
     Revisions
<1>2. CASE Setup \/ Reload \/ Save \/ Delete \/ Abandon
  BY <1>0, <1>1, <1>2 DEF Setup, Reload, Save, Delete, Abandon, Goto, Return, Kept, LiveInv
<1>3. CASE Bump \/ SwitchAccount \/ IssueAddress
  BY <1>0, <1>3 DEF Bump, SwitchAccount, IssueAddress, LiveInv
<1>4. CASE Lapse
  <2>1. shelf' \subseteq Issued
    BY ZenonT(60), <1>4 DEF Lapse, LiveInv, Issued
  <2> QED BY <1>0, <1>4, <2>1 DEF Lapse, LiveInv
<1>5. CASE IssueMenu
  <2>1. shelf' \subseteq Issued
    <3>1. PICK s \in Stores, m \in Menus :
            shelf' = shelf \cup {[generation |-> generation, store |-> s, menu |-> m,
                                 old |-> FALSE]}
      BY <1>5 DEF IssueMenu
    <3> QED BY <3>1, HandleIssued DEF LiveInv
  <2> QED BY <1>0, <1>5, <2>1 DEF IssueMenu, LiveInv
<1>6. ASSUME NEW op \in {"save", "prepare"}, Begin(op) PROVE LiveInv'
  <2>1. ctx' \in Contexts
    BY ZenonT(60), <1>1, <1>6 DEF Begin, Goto, NoContext, Contexts, LiveInv
  <2> QED BY <1>0, <1>6, <2>1 DEF Begin, Goto, LiveInv
<1>7. CASE FindPackage
  <2>1. PICK n \in Names :
          /\ Cardinality(Found(n)) = 1
          /\ LET ref == CHOOSE r \in Found(n) : TRUE IN
               Goto("store", [ctx EXCEPT !.ref = ref, !.revision = image.revision,
                                         !.package = image.packages[ref], !.account = account])
    BY <1>7 DEF FindPackage
  <2>2. Found(n) # {}
    BY <2>1, FS_EmptySet
  <2> DEFINE ref == CHOOSE r \in Found(n) : TRUE
  <2>3. ref \in Present(image)
    BY <2>2 DEF Found
  <2>4. /\ ref \in Refs
        /\ image.packages[ref] \in Packages
        /\ image.packages[ref].by = image.account
    BY <1>1, <2>3 DEF Present, Images, LiveInv, LibraryInv, OneAccount
  <2>5. image.account = account
    <3>1. image.account \in Accounts
      BY <2>4 DEF Packages
    <3> QED BY <1>7, <3>1, PackageLibraryConstants DEF FindPackage, SameAccount
  <2>6. /\ pc' = "store"
        /\ ctx' = [ctx EXCEPT !.ref = ref, !.revision = image.revision,
                              !.package = image.packages[ref], !.account = account]
    BY <2>1 DEF Goto
  <2>7. ctx' \in Contexts /\ ctx'.package = image.packages[ref] /\ ctx'.account = account
    BY ZenonT(60), <1>1, <2>4, <2>6 DEF LiveInv, Contexts, Images
  <2> QED BY <1>0, <1>7, <2>4, <2>5, <2>6, <2>7 DEF FindPackage, Kept, LiveInv
<1>8. CASE FindStore
  <2>1. ctx.package \in Packages /\ ctx.package.by = ctx.account
    BY <1>8 DEF FindStore, LiveInv
  <2>2. ctx.package.recipe.store \in Stores
    BY <2>1, LiveLibraryConstants DEF Packages
  <2>3. /\ pc' = "menu" /\ ctx' \in Contexts
        /\ ctx'.store = ctx.package.recipe.store
        /\ ctx'.package = ctx.package /\ ctx'.account = ctx.account
    BY <1>8, <2>2 DEF FindStore, Goto, LiveInv, Contexts
  <2> QED BY <1>0, <1>8, <2>1, <2>3 DEF FindStore, Kept, LiveInv
<1>9. CASE Reconcile
  <2>1. ctx.store \in Stores
    <3>1. ctx.package \in Packages /\ ctx.store = ctx.package.recipe.store
      BY <1>9 DEF Reconcile, LiveInv
    <3> QED BY <3>1, LiveLibraryConstants DEF Packages
  <2>2. shelf' \subseteq Issued
    <3>1. PICK m \in Menus :
            shelf' = shelf \cup {[generation |-> ctx.generation, store |-> ctx.store,
                                 menu |-> m, old |-> FALSE]}
      BY <1>9 DEF Reconcile
    <3> QED BY <1>1, <2>1, <3>1, HandleIssued DEF LiveInv
  <2> QED BY <1>0, <1>1, <1>9, <2>2 DEF Reconcile, Return, Goto, Kept, LiveInv
<1>10. CASE UNCHANGED vars
  BY <1>0, <1>10 DEF vars, LiveInv
<1> QED
  BY <1>2, <1>3, <1>4, <1>5, <1>6, <1>7, <1>8, <1>9, <1>10 DEF Next

\* What the facade knows of a package it prepares, at every step.
THEOREM LiveInvariant == Spec => []LiveInv
<1>1. Init => LiveInv
  <2> SUFFICES ASSUME Init PROVE LiveInv
    OBVIOUS
  <2>1. LibraryInv
    BY LibraryInitInv DEF Init
  <2>2. NoContext \in Contexts
    BY PackageLibraryConstants DEF NoContext, Contexts, Revisions
  <2> QED BY <2>1, <2>2 DEF Init, LiveInv
<1>2. LiveInv /\ [Next]_vars => LiveInv'
  BY LiveStepPreserves
<1> QED BY <1>1, <1>2, PTL DEF Spec

\* Whatever is browsed, saved, deleted or prepared, the facade does nothing to the library
\* that the library by itself does not allow, with the recipes a menu lets be captured.
THEOREM LiveImplementsLibrary == Spec => LibrarySpec
<1>1. Init => LibraryInit
  BY DEF Init
<1>2. LiveInv /\ [Next]_vars => [LibraryNext]_libraryVars
  BY LiveStep
<1> QED BY <1>1, <1>2, LiveInvariant, PTL DEF Spec, LibrarySpec

\* Under the facade a later write never loses an update the library did not see.
THEOREM LiveWritesWhatItRead == Spec => []WritableMatchesFile
BY LiveImplementsLibrary, LibraryWritesWhatItRead, PTL

\* Under the facade the packages all belong to the account the library is bound to.
THEOREM LiveHasOneAccount == Spec => []PackagesOfOneAccount
BY LiveImplementsLibrary, LibraryHasOneAccount, PTL

\* A preparation that answers "ready" answers with a selection that orders exactly the
\* saved recipe from the menu of now, for the customer who saved it.
THEOREM PreparationOrdersRecipe == Spec => []PreparedOrdersRecipe
<1>1. Init => PreparedOrdersRecipe
  BY DEF Init, PreparedOrdersRecipe
<1>2. ASSUME LiveInv, PreparedOrdersRecipe, [Next]_vars PROVE PreparedOrdersRecipe'
  <2>1. CASE answer' = None
    BY <2>1 DEF PreparedOrdersRecipe
  <2>2. CASE UNCHANGED vars
    BY <1>2, <2>2 DEF vars, PreparedOrdersRecipe, Capturable, Permits, Chosen, RecipeOf
  <2>3. CASE Reconcile /\ answer' # None
    <3> DEFINE package == ctx.package
               chosen == package.recipe.chosen
    <3>1. PICK menu \in Menus :
            /\ Reconciles(chosen, menu)
            /\ answer' = [package |-> package, account |-> ctx.account, store |-> ctx.store,
                          menu |-> menu, selection |-> SelectionOf(chosen, menu)]
      BY <2>3 DEF Reconcile
    <3>2. /\ package \in Packages /\ package.by = ctx.account
          /\ ctx.store = package.recipe.store
      BY <1>2, <2>3 DEF Reconcile, LiveInv
    <3>3. package.recipe \in [store: Stores, chosen: Choices]
      BY <3>2, LiveLibraryConstants DEF Packages
    <3>4. /\ Chosen(menu, SelectionOf(chosen, menu)) = chosen
          /\ Capturable(menu, SelectionOf(chosen, menu))
      BY <3>1, <3>3, ReconciledRestores
    <3>5. RecipeOf(ctx.store, menu, SelectionOf(chosen, menu)) = package.recipe
      BY <3>2, <3>3, <3>4 DEF RecipeOf
    <3> QED BY <3>1, <3>2, <3>4, <3>5 DEF PreparedOrdersRecipe
  <2> QED
    BY <1>2, <2>1, <2>2, <2>3
    DEF Next, Silent, Setup, Reload, Bump, SwitchAccount, Lapse, IssueAddress, IssueMenu,
        Begin, Abandon, Save, Delete, FindPackage, FindStore
<1> QED BY <1>1, <1>2, LiveInvariant, PTL DEF Spec
=============================================================================
