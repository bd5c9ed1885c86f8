SPECIFICATION Spec
CONSTANTS
    None = None
    Keys = {k1}
    MaxFileLimit = 1
    Lifetime = 1
    MaxDrafts = 2
    MaxNow = 2
    MaxRequests = 2
    Configs = {"none", "good"}
INVARIANTS NoUploadPastUpload ReviewIsComplete ReadyToReview SavedIsShown
PROPERTY ForgottenIsOver
