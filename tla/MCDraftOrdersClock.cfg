SPECIFICATION FairSpec
CONSTANTS
    Users = {u1}
    Tasks = {t1, t2}
    None = None
    MaxQueueSeq = 2
    MaxFileLimit = 1
    Lifetime = 1
    MaxDrafts = 2
    MaxFiles = 1
    MaxNow = 2
    MaxRestarts = 0
INVARIANTS SentFilesUploaded UrlWithinDraft
PROPERTIES ClearedUrlsExpired RequestsEnd ExpiredDraftsGo
