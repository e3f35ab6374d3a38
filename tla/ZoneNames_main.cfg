\* A domain and a name below it, two owners: two requests and the cron job, two of
\* requests and failures in all.  Nothing has to happen when nobody asks.
SPECIFICATION FairSpec
CONSTANTS
    domain = domain
    sub = sub
    Users = {u1, u2}
    Names <- MCNames
    Generic <- MCGeneric
    Registrable = {sub}
    Creates <- MCCreates
    AdminCreates <- MCAdminCreates
    NumRequests = 2
    MaxEvents = 2
INVARIANTS TypeOK MisbilledOnlyIfRaced NamesApart OneSubscription
PROPERTY UsageConverges
CHECK_DEADLOCK FALSE
