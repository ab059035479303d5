\* One submission of alice, one follow request at a time, one socket that
\* may reconnect as either user.
CONSTANTS
    Submissions = {s1}
    Verdicts = {"ACCEPTED", "WRONG_ANSWER"}
    Users = {alice, bob}
    OwnerOf <- OneOwner
    Nobody = Nobody
    Sockets = {k1}
    Wanted <- BobFollowsAlice
    Requests = {r1}
    MaxFollows = 1
    s1 = s1
    alice = alice
    bob = bob
    k1 = k1
    r1 = r1
SPECIFICATION Spec
INVARIANTS
    TypeOK
    InboxIsTrue
    EachIsToldOnce
PROPERTIES
    AcceptedIsNotified
    PublishedIsReceived
