\* Accounts: two accounts, two setup links, two concurrent requests.
\* Tabs: one, on one request; two dialogs, submissions, loads under way and
\* changes of the request, in whatever way they meet.
SPECIFICATION MCSpec
CONSTANTS
    Users = {u1, u2}
    Founder = u1
    Links = {l1, l2}
    Requests = {r1, r2}
    Free = Free
    NoTask = NoTask
    NoSession = NoSession
    MaxVersion = 1
    Desks = {d1}
    Items = {i1}
    Choices = {c1, c2}
    Nobody = Nobody
    NoDialog = NoDialog
    NoPost = NoPost
    MaxDialogs = 2
    MaxPosts = 2
    MaxLoads = 2
    MaxEvents = 3
SYMMETRY Symmetry
CONSTRAINT QueuesOnce
INVARIANTS OwnerRemains SessionsFollowPassword DecisionsOnce DecidedAsOpened
PROPERTIES NewestLinkSets NeverBackwards
