---------------------------- MODULE LiveLibrary -----------------------------
(***************************************************************************)
(* The library operations of the live facade (ordering_live_api.py) over   *)
(* PackageLibrary, the handles of addresses (ordering_account.py) and of   *)
(* stores and menus (ordering_live_selection.py), and the catalogue.       *)
(*                                                                         *)
(* An administrator browses a menu, saves a selection of it as a package,  *)
(* and later has the package prepared: its recipe is matched against what  *)
(* the provider offers by then and comes back as a selection of fresh      *)
(* handles, to be put in the basket as it is.                              *)
(*                                                                         *)
(* A request holds the flow's lock; `pc' names the read of the provider it *)
(* awaits.  One product stands for a package's products, each of which is  *)
(* treated alike; its quantity is copied.  The handles of a menu were      *)
(* issued together and are one record.                                     *)
(***************************************************************************)
EXTENDS PackageLibrary

CONSTANTS
    Stores,         \* identities of the store behind a slug
    Groups,         \* option groups
    Options,
    Menus,          \* what the provider may offer of the product
    Default,        \* stands for the options of a group the request does not mention
    MaxGeneration,  \* bound on the manager's generations
    MaxMenus,       \* bound on the menus on the shelf
    MaxReloads,     \* bound on setups after the first
    MaxFailures     \* bound on the saves of the library that fail

VARIABLES
    generation,     \* the manager's current generation
    account,        \* the customer the provider answers for
    address,        \* the generation of the live address handle, or 0
    shelf,          \* the menus whose handles are live; old: no longer for a selection (five
                    \* minutes), still for saving a package (two hours)
    pc, ctx,
    answer,         \* the "ready" a preparation has just answered, or None
    reloads,
    failures

vars == <<libraryVars, generation, account, address, shelf, pc, ctx, answer, reloads, failures>>

Choices == [Groups -> SUBSET Options]
Unmentioned == {Default}
\* The groups a request mentions, each with the options it names.
Selections == [Groups -> (SUBSET Options) \cup {Unmentioned}]

Offers == [options: SUBSET Options, defaults: SUBSET Options, minimum: Nat, maximum: Nat,
           multiple: BOOLEAN]

NoContext == [op |-> "none", generation |-> 0, ref |-> None, revision |-> 0, package |-> None,
              account |-> None, store |-> None]

ASSUME LiveLibraryConstants ==
    /\ Recipes = [store: Stores, chosen: Choices]
    /\ Menus \subseteq [Groups -> Offers \cup {None}]
    /\ Default \notin Options
    /\ MaxGeneration \in Nat \ {0}
    /\ {MaxMenus, MaxReloads, MaxFailures} \subseteq Nat

(***************************************************************************)
(* Selections and recipes.                                                 *)
(***************************************************************************)
Permits(offer, chosen) ==
    /\ chosen \subseteq offer.options
    /\ Cardinality(chosen) \in offer.minimum..offer.maximum
    /\ offer.multiple \/ Cardinality(chosen) <= 1

\* A group that is offered and not mentioned gets its defaults.
Chosen(menu, selection) ==
    [g \in Groups |->
        IF menu[g] = None THEN {}
        ELSE IF selection[g] = Unmentioned THEN menu[g].defaults ELSE selection[g]]

\* _capture_selection and _compile_customizations accept the selection.
Capturable(menu, selection) ==
    \A g \in Groups :
        IF menu[g] = None THEN selection[g] = Unmentioned
        ELSE Permits(menu[g], Chosen(menu, selection)[g])

\* recipe_items_from_capture: groups without a choice are not part of a recipe.
RecipeOf(store, menu, selection) == [store |-> store, chosen |-> Chosen(menu, selection)]

\* reconcile_recipe: every choice is still offered and every group still satisfied.
Reconciles(chosen, menu) ==
    \A g \in Groups :
        IF menu[g] = None THEN chosen[g] = {} ELSE Permits(menu[g], chosen[g])

\* Mutant: groups without a choice are left out of the selection.
SelectionOfChoices(chosen, menu) ==
    [g \in Groups |-> IF chosen[g] = {} THEN Unmentioned ELSE chosen[g]]

\* issue_reconciled_selection mentions every group of the menu.
SelectionOf(chosen, menu) ==
    [g \in Groups |-> IF menu[g] = None THEN Unmentioned ELSE chosen[g]]

(***************************************************************************)
(* Setup, reload, and what changes around a request.                       *)
(***************************************************************************)
Goto(step, context) == pc' = step /\ ctx' = context
Return == Goto("idle", NoContext)
Silent == answer' = None

Init ==
    /\ LibraryInit
    /\ file.image.revision <= 1
    /\ generation = 1
    /\ account \in Accounts
    /\ address = 0
    /\ shelf = {}
    /\ pc = "down" /\ ctx = NoContext
    /\ answer = None
    /\ reloads = 0
    /\ failures = 0

Results == {"ok"} \cup (IF failures < MaxFailures THEN {"failed"} ELSE {})
Counted(r) == failures' = IF r = "failed" THEN failures + 1 ELSE failures

\* Without a readable library everything else is set up.
Setup ==
    /\ pc = "down"
    /\ \E r \in Results : Load(r) /\ Counted(r)
    /\ Return
    /\ Silent /\ UNCHANGED <<generation, account, address, shelf, reloads>>

\* A shutdown waits for the lock and forgets every handle; a crash waits for nothing.
Reload ==
    /\ pc # "down"
    /\ reloads < MaxReloads
    /\ reloads' = reloads + 1
    /\ Forget
    /\ address' = 0
    /\ shelf' = {}
    /\ Silent
    /\ Goto("down", NoContext)
    /\ UNCHANGED <<generation, account, failures>>

Bump ==
    /\ generation < MaxGeneration
    /\ generation' = generation + 1
    /\ Silent /\ UNCHANGED <<libraryVars, account, address, shelf, pc, ctx, reloads, failures>>

\* A pasted token may be another customer's.
SwitchAccount ==
    /\ account' \in Accounts \ {account}
    /\ Silent /\ UNCHANGED <<libraryVars, generation, address, shelf, pc, ctx, reloads, failures>>

\* A lease runs out.
Lapse ==
    /\ \/ address # 0 /\ address' = 0 /\ UNCHANGED shelf
       \/ \E h \in shelf :
            /\ shelf' = (shelf \ {h}) \cup (IF h.old THEN {} ELSE {[h EXCEPT !.old = TRUE]})
            /\ UNCHANGED address
    /\ Silent /\ UNCHANGED <<libraryVars, generation, account, pc, ctx, reloads, failures>>

(***************************************************************************)
(* Browsing.                                                               *)
(***************************************************************************)
\* live/addresses.
IssueAddress ==
    /\ pc = "idle"
    /\ address' = generation
    /\ Silent /\ UNCHANGED <<libraryVars, generation, account, shelf, pc, ctx, reloads, failures>>

\* live/stores and live/store_menu: handles under the store's, for a live address.
IssueMenu ==
    /\ pc = "idle"
    /\ address = generation
    /\ Cardinality(shelf) < MaxMenus
    /\ \E s \in Stores, m \in Menus :
         shelf' = shelf \cup {[generation |-> generation, store |-> s, menu |-> m, old |-> FALSE]}
    /\ Silent /\ UNCHANGED <<libraryVars, generation, account, address, pc, ctx, reloads, failures>>

(***************************************************************************)
(* The operations of the library.                                          *)
(***************************************************************************)
\* A request that needs to know the customer first.
Begin(op) ==
    /\ pc = "idle"
    /\ loaded
    /\ Goto("account", [NoContext EXCEPT !.op = op, !.generation = generation])
    /\ Silent
    /\ UNCHANGED <<libraryVars, generation, account, address, shelf, reloads, failures>>

Kept == UNCHANGED <<generation, account, address, reloads>>

\* The request is refused, its read fails, or it is cancelled there.
Abandon ==
    /\ pc \in {"account", "store", "menu"}
    /\ Return
    /\ UNCHANGED <<libraryVars, shelf, failures>>
    /\ Silent
    /\ Kept

\* library/package_save: handles of the request's generation, old ones too.
Save ==
    /\ pc = "account" /\ ctx.op = "save"
    /\ \E h \in shelf, selection \in Selections, ref \in Refs, revision \in Revisions,
          names \in (SUBSET Names) \ {{}}, r \in Results :
         /\ h.generation = ctx.generation
         /\ Capturable(h.menu, selection)
         /\ SavePackage(image.revision, ref, revision, names,
                        RecipeOf(h.store, h.menu, selection), account, r)
         /\ Counted(r)
    /\ Return
    /\ Silent /\ UNCHANGED shelf
    /\ Kept

\* library/package_delete asks for no customer.
Delete ==
    /\ pc = "idle"
    /\ \E ref \in Refs, revision \in Revisions, r \in Results :
         DeletePackage(image.revision, ref, revision, r) /\ Counted(r)
    /\ Silent
    /\ UNCHANGED <<shelf, pc, ctx>>
    /\ Kept

\* library/package_prepare: the record, its account, the address; then the store is read.
FindPackage ==
    /\ pc = "account" /\ ctx.op = "prepare"
    /\ \E n \in Names :
         /\ Cardinality(Found(n)) = 1
         /\ LET ref == CHOOSE r \in Found(n) : TRUE IN
              Goto("store", [ctx EXCEPT !.ref = ref, !.revision = image.revision,
                                        !.package = image.packages[ref], !.account = account])
    /\ SameAccount(account)
    /\ address = ctx.generation
    /\ UNCHANGED <<libraryVars, shelf, failures>>
    /\ Silent
    /\ Kept

\* The store is the one of the recipe, and open.
FindStore ==
    /\ pc = "store"
    /\ Goto("menu", [ctx EXCEPT !.store = ctx.package.recipe.store])
    /\ UNCHANGED <<libraryVars, shelf, failures>>
    /\ Silent
    /\ Kept

\* The recipe is reconciled with the menu, and its handles are issued.  An answer that
\* comes under another generation is dropped by the flow, its handles stay.
Reconcile ==
    /\ pc = "menu"
    /\ \E m \in Menus :
         /\ Reconciles(ctx.package.recipe.chosen, m)
         /\ Cardinality(shelf) < MaxMenus
         /\ shelf' = shelf \cup {[generation |-> ctx.generation, store |-> ctx.store,
                                  menu |-> m, old |-> FALSE]}
         /\ answer' =
              IF IsCurrent(ctx.revision, ctx.ref, ctx.package.revision) /\ generation = ctx.generation
              THEN [package |-> ctx.package, account |-> ctx.account, store |-> ctx.store,
                    menu |-> m, selection |-> SelectionOf(ctx.package.recipe.chosen, m)]
              ELSE None
    /\ Return
    /\ UNCHANGED <<libraryVars, failures>>
    /\ Kept

Next ==
    \/ Setup \/ Reload \/ Bump \/ SwitchAccount \/ Lapse
    \/ IssueAddress \/ IssueMenu
    \/ \E op \in {"save", "prepare"} : Begin(op)
    \/ Abandon \/ Save \/ Delete \/ FindPackage \/ FindStore \/ Reconcile

Spec == Init /\ [][Next]_vars

(***************************************************************************)
(* Properties.                                                             *)
(***************************************************************************)

\* A prepared package, put in the basket as it came back, orders what was saved, nothing
\* more and nothing less, whatever the menu offers or preselects by now, and for the
\* customer who saved it.
PreparedOrdersRecipe ==
    answer # None =>
        /\ Capturable(answer.menu, answer.selection)
        /\ RecipeOf(answer.store, answer.menu, answer.selection) = answer.package.recipe
        /\ answer.package.by = answer.account
=============================================================================
