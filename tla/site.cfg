SPECIFICATION Spec
CONSTANTS
    Applications <- MCApplications
    LateRules <- MCLateRules
    Targets <- MCTargets
    Bookmarks <- MCBookmarks
    Contents = {"x", "y", ""}
    Bundles = {"x", ""}
    Files <- MCFiles
    Forms <- MCForms
    Cookies <- MCCookies
    Mount <- MCMount
    Null = Null
INVARIANT LinksLeadBack
INVARIANT FreshPages
INVARIANT InputsArrive
PROPERTY StableRoutes
