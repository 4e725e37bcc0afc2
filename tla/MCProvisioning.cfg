SPECIFICATION FairSpec
CONSTANTS
    Empty = Empty
    Yes = Yes
    No = No
    Absent = Absent
    homeNet = homeNet
    homePass = homePass
    cafeNet = cafeNet
    special = special
    escaped = escaped
    word = word
    newWord = newWord
    name = name
    secret = secret
    prefix = prefix
    Text <- MCText
    Default <- MCDefault
    Special <- MCSpecial
    Escaped <- MCEscaped
    Forms <- MCForms
    Home <- HomePlain
INVARIANTS
    TypeOK
    AckedIsStored
    WifiPaired
    OwnerKnowsPassword
PROPERTIES
    SettingsSpec
    MqttKept
    Provisioned
