SPECIFICATION Spec
CONSTANTS
    Refs = {p1, p2}
    Names = {n1, n2}
    Recipes <- MCRecipes
    Accounts = {a1, a2}
    None = None
    MaxRevision = 3
    Stores = {s1}
    Groups = {extras}
    Options = {cheese}
    Menus <- MCMenus
    Default = Default
    MaxGeneration = 2
    MaxMenus = 1
    MaxReloads = 1
    MaxFailures = 1
SYMMETRY Symmetry
INVARIANTS
    WritableMatchesFile
    PackagesOfOneAccount
    PreparedOrdersRecipe
CHECK_DEADLOCK FALSE
