CONSTANTS
  blank = blank  short = short  long = long  crop = crop  water = water  pm = pm
  desk1 = desk1  named1 = named1  desk2 = desk2  named2 = named2
  yes = yes  yesText = yesText
  Folders <- MCUnreadFolders
  Submissions <- MCUnreadSubmissions
  Desks <- MCDesks
  Replies <- MCReplies
  Values <- MCValues
  Length <- MCLength
  TextOf <- MCTextOf
  Blank = {blank}
  Unlimited = 9
  None = None
SPECIFICATION FormsSpec
INVARIANT FiledWithinThePack
CHECK_DEADLOCK FALSE
