\* Two handlers that load and save the same zone; two changes, or a change and a
\* fault, then cron and the workers go on for ever.
SPECIFICATION FairSpec
CONSTANTS
    Zones = {z1}
    Handlers = {h1, h2}
    Workers = {w1}
    MaxEvents = 2
INVARIANTS TypeOK OnlyPaidPublished CdsSettingKept
PROPERTIES CatalogConverges SignalConverges NetnodConverges
