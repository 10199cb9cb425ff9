CONSTANTS
  author = author
  anna = anna
  team = team
  role = role
  Users = {author, anna}
  Author = author
  Writers = {author}
  Reviewers = {anna}
  Bodies = {text}
  Rests = {here}
  Elsewhere = {}
  Gates = {role}
  Roles = {role}
  Shapes <- OneStage
  NoPatch = NoPatch
  MaxVersion = 3
  MaxRequests = 1
  MaxChanges = 1
SPECIFICATION Spec
PROPERTIES OnlyApprovalsPublish
CHECK_DEADLOCK FALSE
