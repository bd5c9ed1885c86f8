\* One tab that signs in twice, or once with the server ending in between.
SPECIFICATION WebSpec
CONSTANTS
    Users = {s1, m1}
    Merchants = {m1}
    Tabs = {tab}
    None = None
    Asked = Asked
    MaxIds = 2
    MaxRestarts = 1
    MaxEvents = 2
INVARIANTS OnboardedIsRecorded OnboardedForGood SignedOutStaysOut RightPage
PROPERTIES MovesEnd
