\* One profile: what `profile-policy apply` says it applied is in the file.
CONSTANTS PolicyProfiles = {p1}
SPECIFICATION PolicySpec
INVARIANTS ApplyIsKept
