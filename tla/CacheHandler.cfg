CONSTANTS
    news = news
    mail = mail
    ann = ann
    bob = bob
    r1 = r1
    r2 = r2
    NoHeader = NoHeader
    Nobody = Nobody
    Everybody = Everybody
    NoKey = NoKey
    None = None
    Request = {r1, r2}
    Field = {news, mail}
    PrivateFields = {mail}
    Header = {ann, bob}
    Subject = {ann, bob}
    SubjectOf <- MCSubjectOf
    Identity <- MCIdentity
    Key <- MCKey
    PublicKey <- MCPublicKey
    PrivateKey <- MCPrivateKey
    Durations = {0}
    Selections = {{news}, {mail}}
    MaxTime = 1
    MaxVersion = 1
SPECIFICATION FairSpec
INVARIANTS
    TypeOK
    OwnAnswers
    EntriesOwned
    FreshAnswers
PROPERTIES
    Answered
