SPECIFICATION Spec
CONSTANTS
    app = app
    old = old
    latest = latest
    v1 = v1
    v2 = v2
    d1 = d1
    d2 = d2
    d3 = d3
    d4 = d4
    None = None
    Images = {app, old}
    Tags = {latest, v1, v2}
    Digests = {d1, d2, d3, d4}
    Created <- Built
    Schema1 = {d4}
    Now = 4
    ExactImages <- AppExact
    GroupImages <- AppGroup
    DefaultNum = 1
    KeepHours = 2
    InitialTags <- SomeTags
    Workers = {w1, w2}
    MaxFaults = 1
    MaxPushes = 0
    MaxLate = 1
INVARIANTS KeepTagsSurvive
