SPECIFICATION Spec
CONSTANTS
    a = a
    b = b
    z = z
    Tasks = {a, b, z}
    Clients = {c1, c2}
    Ops = {"status", "field", "details", "archive", "unarchive", "delete", "archive_project", "unarchive_project", "link"}
    Dues = {1, 2}
    Depends <- Joined
    MaxVersion = 3
    MaxWork = 5
SYMMETRY Symmetry
CONSTRAINT Instance
INVARIANTS HistoryReplays EventKeysFresh RemindersFitTask ReminderLostOnlyByReopening
PROPERTIES UnblockIsAnnounced AnnouncedIsUnblocked
CHECK_DEADLOCK FALSE
