SPECIFICATION VoiceSpec
CONSTANTS
    Speaker = {u1}
    VoiceChannel = {c1}
    MaxVoice = 2
    MaxKicks = 1
INVARIANTS
    MembersAreLive
CHECK_DEADLOCK FALSE
