\* Two accounts and three requests, with those the pages send of themselves.
SPECIFICATION FairSpec
CONSTANTS
    None = None
    e1 = e1
    e2 = e2
    Emails = {e1, e2}
    Registered = {e1}
    Visited = {"login", "register", "forget", "activation", "mail_forget", "activate", "reset",
               "success", "settings", "away"}
    MaxRequests = 3
CHECK_DEADLOCK FALSE
INVARIANTS
    PagesInv
    LoginPageMeansSignedOut
    SuccessIsTrue
PROPERTIES
    LoginMaskLifted
