SPECIFICATION Spec
CONSTANTS
  Conn = {c1, c2}
  Email = {"ann", "Ann", "bob"}
  Password = {"long", "other"}
  Short = {"other"}
  Lower <- MCLower
  MaxUsers = 2
  MaxSessions = 1
  MaxResets = 1
SYMMETRY Perms
INVARIANTS SessionsJustified MailsReachOwner AnswerNamesUser AskedIsMailed
PROPERTY PasswordChangesByToken
