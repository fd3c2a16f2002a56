CONSTANTS
    Apps = {app}
    Cordova = {app}
    ViewIds = {view}
    Infos = {home, about}
    Slots = {s1, s2}
    Interval = interval
    Askers = {deployer}
    None = None
    MaxChanges = 3
SPECIFICATION FairSpec
INVARIANTS SubscribersAgree FreshAnswers
PROPERTIES CheckIsShared EventsCatchUp
