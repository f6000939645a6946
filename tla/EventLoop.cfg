\* One ASCII and one wide character, passwords up to two characters, and two
\* fingerprint reports waiting behind (or before) PAM's verdict.
CONSTANTS
    a = a
    w = w
    Ascii = {a}
    Wide = {w}
    Secret <- SecretA
    None = None
    MaxLen = 2
    MaxQueue = 2
SPECIFICATION Spec
INVARIANTS
    AnswersMatchAttempt
    OneAnswerPerAttempt
    SubmitNeverWaitsForPam
    UnlockedIsFinal
PROPERTIES
    TypedTextSurvives
    ImplementsScreenLock
    AnswersEveryAttempt
    MatchUnlocks
    ExitCompletes
